---- MODULE Spec2Model ----
(***************************************************************************)
(* Billing action generation engine: BillingEngine (orchestrator),         *)
(* ActionFactory (dispatcher), the four order-type action generators with  *)
(* their rollback (compensation) logic, and the RiskCalculator.            *)
(*                                                                         *)
(* One behaviour is one invocation of BillingEngine.generateActions.  A    *)
(* step is one synchronous stretch of code between two await points (one   *)
(* loop iteration, one provider call with its outcome).  Every provider    *)
(* call may succeed or throw.  JavaScript try/catch is modelled with an    *)
(* explicit stack of enclosing catch blocks.                               *)
(***************************************************************************)
EXTENDS Integers, Sequences, FiniteSets, TLC

(* ---------------- bounds ---------------- *)
MaxItems == 3
MaxSubs == 2
MaxPricedItems == 2

(* ---------------- generic helpers ---------------- *)
SeqsUpTo(S, lo, hi) == UNION {[1..k -> S] : k \in lo..hi}

\* the characters of the product / plan codes used as inputs
Spelling ==
  ("" :> <<>>) @@ ("A" :> <<"A">>) @@ ("B" :> <<"B">>) @@ ("AB" :> <<"A", "B">>)

\* String.prototype.includes, computed on the characters of the two strings
Includes(hay, needle) ==
  LET h == Spelling[hay]
      n == Spelling[needle]
  IN \E i \in 0..(Len(h) - Len(n)) : SubSeq(h, i + 1, i + Len(n)) = n

\* Array.prototype.includes-like test on a string modelled as a sequence of tokens
HasToken(tokens, t) == \E i \in 1..Len(tokens) : tokens[i] = t

(* ---------------- data model (types/index.ts) ---------------- *)
\* amount_in_cents?: number -- the value of an absent optional amount
NoAmount == -1

OkDate(d) == [kind |-> "ok", day |-> d]
MissingDate == [kind |-> "missing", day |-> 0]
InvalidDate == [kind |-> "invalid", day |-> 0]

NoDetails ==
  [error |-> "", opportunity_id |-> "", subscription_id |-> 0,
   risk_score |-> 0, risk_factors |-> <<>>]

BillingAction ==
  [type |-> "", description |-> <<>>, details |-> NoDetails,
   amount_in_cents |-> NoAmount, requires_review |-> FALSE,
   risk_level |-> "low", notes |-> <<>>, line_item |-> 0]

\* RecurlyState | null
NoState == [present |-> FALSE, subscriptions |-> <<>>]

\* the payload of a provider call
NoData ==
  [plan_code |-> "", unit_amount_in_cents |-> 0, quantity |-> 0,
   collection_method |-> "", net_terms |-> 0]

\* one record of the provider-call log: the operation, the subscription it
\* concerns (the uuid returned by a successful creation), its outcome, whether
\* rollbackItems issued it, and its payload
Call(op, id, ok, comp, data) ==
  [op |-> op, id |-> id, ok |-> ok, comp |-> comp, data |-> data]

(* ---------------- RiskCalculator ---------------- *)
RISK_THRESHOLD_LOW == 1000
RISK_THRESHOLD_MEDIUM == 5000

\* calculateRiskLevel on the amount num / den (den > 0)
calculateRiskLevelOf_m(num, den) ==
  IF num < RISK_THRESHOLD_LOW * den THEN "low"
  ELSE IF num <= RISK_THRESHOLD_MEDIUM * den THEN "medium"
  ELSE "high"
calculateRiskLevelOf(num, den) ==
  IF num <= RISK_THRESHOLD_LOW * den THEN "low"
  ELSE IF num <= RISK_THRESHOLD_MEDIUM * den THEN "medium"
  ELSE "high"

calculateRiskLevel(amount) == calculateRiskLevelOf(amount, 1)

calculateAmountRisk(amount) ==
  IF amount > 100000 THEN [score |-> 10, factors |-> <<"Very high value opportunity (>$100k)">>]
  ELSE IF amount > 50000 THEN [score |-> 7, factors |-> <<"High value opportunity (>$50k)">>]
  ELSE IF amount > 10000 THEN [score |-> 4, factors |-> <<"Medium value opportunity (>$10k)">>]
  ELSE IF amount > 1000 THEN [score |-> 2, factors |-> <<"Low value opportunity (>$1k)">>]
  ELSE [score |-> 0, factors |-> <<>>]

calculateComplexityRisk_m(lineItems) ==
  LET n == Len(lineItems)
      count == IF n > 10 THEN [score |-> 9, factors |-> <<"Very complex order (>10 line items)">>]
               ELSE IF n > 5 THEN [score |-> 5, factors |-> <<"Complex order (>5 line items)">>]
               ELSE IF n > 2 THEN [score |-> 2, factors |-> <<"Multiple line items">>]
               ELSE [score |-> 0, factors |-> <<>>]
      oneTime == IF \E i \in 1..n : lineItems[i].billing_period = "one_time"
                 THEN [score |-> 3, factors |-> <<"Contains one-time charges">>]
                 ELSE [score |-> 0, factors |-> <<>>]
      proration == IF \E i \in 1..n : lineItems[i].proration_needed
                   THEN [score |-> 4, factors |-> <<"Contains proration calculations">>]
                   ELSE [score |-> 0, factors |-> <<>>]
  IN [score |-> count.score + oneTime.score + proration.score,
      factors |-> count.factors \o oneTime.factors \o proration.factors]
calculateComplexityRisk(lineItems) ==
  LET n == Len(lineItems)
      count == IF n > 10 THEN [score |-> 8, factors |-> <<"Very complex order (>10 line items)">>]
               ELSE IF n > 5 THEN [score |-> 5, factors |-> <<"Complex order (>5 line items)">>]
               ELSE IF n > 2 THEN [score |-> 2, factors |-> <<"Multiple line items">>]
               ELSE [score |-> 0, factors |-> <<>>]
      oneTime == IF \E i \in 1..n : lineItems[i].billing_period = "one_time"
                 THEN [score |-> 3, factors |-> <<"Contains one-time charges">>]
                 ELSE [score |-> 0, factors |-> <<>>]
      proration == IF \E i \in 1..n : lineItems[i].proration_needed
                   THEN [score |-> 4, factors |-> <<"Contains proration calculations">>]
                   ELSE [score |-> 0, factors |-> <<>>]
  IN [score |-> count.score + oneTime.score + proration.score,
      factors |-> count.factors \o oneTime.factors \o proration.factors]

\* dates are whole days, so Math.ceil(ms / 86400000) is the day difference;
\* a missing or unparsable date makes it NaN, which fails every comparison
calculateDurationRisk_m(startDate, endDate) ==
  LET durationInDays == endDate.day - startDate.day
  IN IF startDate.kind # "ok" \/ endDate.kind # "ok" THEN [score |-> 0, factors |-> <<>>]
     ELSE IF durationInDays > 365 THEN [score |-> 6, factors |-> <<"Long-term contract (>1 year)">>]
     ELSE IF durationInDays >= 90 THEN [score |-> 3, factors |-> <<"Medium-term contract (>3 months)">>]
     ELSE IF durationInDays < 30 THEN [score |-> 2, factors |-> <<"Short-term contract (<1 month)">>]
     ELSE [score |-> 0, factors |-> <<>>]
calculateDurationRisk(startDate, endDate) ==
  LET durationInDays == endDate.day - startDate.day
  IN IF startDate.kind # "ok" \/ endDate.kind # "ok" THEN [score |-> 0, factors |-> <<>>]
     ELSE IF durationInDays > 365 THEN [score |-> 6, factors |-> <<"Long-term contract (>1 year)">>]
     ELSE IF durationInDays > 90 THEN [score |-> 3, factors |-> <<"Medium-term contract (>3 months)">>]
     ELSE IF durationInDays < 30 THEN [score |-> 2, factors |-> <<"Short-term contract (<1 month)">>]
     ELSE [score |-> 0, factors |-> <<>>]

\* payment terms are a sequence of tokens; includes() is a token test
calculatePaymentTermsRisk(paymentTerms) ==
  IF HasToken(paymentTerms, "net_90") \/ HasToken(paymentTerms, "net_120")
  THEN [score |-> 5, factors |-> <<"Extended payment terms">>]
  ELSE IF HasToken(paymentTerms, "net_60") THEN [score |-> 3, factors |-> <<"Long payment terms">>]
  ELSE IF HasToken(paymentTerms, "net_30") THEN [score |-> 1, factors |-> <<"Standard payment terms">>]
  ELSE IF HasToken(paymentTerms, "due_on_receipt") THEN [score |-> 0, factors |-> <<"Immediate payment">>]
  ELSE [score |-> 0, factors |-> <<>>]

determineRiskLevel_m(score) ==
  IF score < 10 THEN "low" ELSE IF score <= 20 THEN "medium" ELSE "high"
determineRiskLevel(score) ==
  IF score <= 10 THEN "low" ELSE IF score <= 20 THEN "medium" ELSE "high"

calculateOpportunityRisk(opp) ==
  LET amountRisk == calculateAmountRisk(opp.amount)
      complexityRisk == calculateComplexityRisk(opp.line_items)
      durationRisk == calculateDurationRisk(opp.contract_start_date, opp.contract_end_date)
      paymentRisk == calculatePaymentTermsRisk(opp.payment_terms)
      score == amountRisk.score + complexityRisk.score + durationRisk.score + paymentRisk.score
  IN [riskLevel |-> determineRiskLevel(score),
      factors |-> amountRisk.factors \o complexityRisk.factors
                  \o durationRisk.factors \o paymentRisk.factors,
      score |-> score]

NoRisk == [riskLevel |-> "none", factors |-> <<>>, score |-> 0]

(* ---------------- BillingEngine.validateOpportunity ---------------- *)
\* the message of the first check of one line item that throws, "" if none
validateLineItem(item) ==
  IF item.product_code = "" \/ item.product_name = ""
  THEN "Product code and name are required for all line items"
  ELSE IF item.unit_price <= 0 THEN "Unit price must be greater than 0"
  ELSE IF item.quantity <= 0 THEN "Quantity must be greater than 0"
  ELSE ""

\* strict comparison of the two parsed dates
StartNotBeforeEnd_m(startDate, endDate) == startDate.day > endDate.day
StartNotBeforeEnd(startDate, endDate) == startDate.day >= endDate.day

\* the message of the Error thrown by validateOpportunity, "" if it returns
validateOpportunity(opp) ==
  IF opp.id = "" THEN "Opportunity ID is required"
  ELSE IF opp.type = "" THEN "Opportunity type is required"
  ELSE IF opp.account_id = "" THEN "Account ID is required"
  ELSE IF opp.contract_start_date.kind = "missing" \/ opp.contract_end_date.kind = "missing"
  THEN "Contract start and end dates are required"
  ELSE IF Len(opp.line_items) = 0 THEN "At least one line item is required"
  ELSE IF \E i \in 1..Len(opp.line_items) : validateLineItem(opp.line_items[i]) # ""
  THEN LET first == CHOOSE i \in 1..Len(opp.line_items) :
                      /\ validateLineItem(opp.line_items[i]) # ""
                      /\ \A j \in 1..(i - 1) : validateLineItem(opp.line_items[j]) = ""
       IN validateLineItem(opp.line_items[first])
  ELSE IF opp.contract_start_date.kind = "invalid" \/ opp.contract_end_date.kind = "invalid"
  THEN "Invalid contract dates"
  ELSE IF StartNotBeforeEnd(opp.contract_start_date, opp.contract_end_date)
  THEN "Contract start date must be before end date"
  ELSE ""

(* ---------------- calendar (Date, date-fns) ---------------- *)
\* A date string parses to midnight of a day; days are counted from
\* 2024-01-01 (day 0).  The clock is read in half days, so that "now" can fall
\* inside a day: the instant of day d at midnight is 2 * d.
IsLeapYear(year) == (year % 4 = 0 /\ year % 100 # 0) \/ year % 400 = 0

DaysInYear(year) == IF IsLeapYear(year) THEN 366 ELSE 365

\* month is the JavaScript month index, 0..11
DaysInMonth(year, month) ==
  IF month = 1 THEN (IF IsLeapYear(year) THEN 29 ELSE 28)
  ELSE IF month \in {3, 5, 8, 10} THEN 30 ELSE 31

\* the element of a one-element set: it names a value that is computed once
TheOne(S) == CHOOSE x \in S : TRUE

RECURSIVE YearFrom(_, _)
YearFrom(day, year) ==
  IF day < 0
  THEN TheOne({YearFrom(d, year - 1) : d \in {day + DaysInYear(year - 1)}})
  ELSE IF day >= DaysInYear(year)
  THEN TheOne({YearFrom(d, year + 1) : d \in {day - DaysInYear(year)}})
  ELSE [year |-> year, dayOfYear |-> day]

RECURSIVE MonthFrom(_, _, _)
MonthFrom(dayOfYear, year, month) ==
  IF dayOfYear >= DaysInMonth(year, month)
  THEN TheOne({MonthFrom(d, year, m) : d \in {dayOfYear - DaysInMonth(year, month)},
                                       m \in {month + 1}})
  ELSE month

\* The offset of the process's local time from UTC, in half days: 0 stands for
\* UTC and the zones up to twelve hours east of it, -1 for the zones west of
\* it, where the UTC midnight a date string parses to is still the day before.
TimeZones == {0, -1}

\* getFullYear() and getMonth() of the instant t (half days) read local time
getFullYear(t, tz) == TheOne({YearFrom(day, 2024).year : day \in {(t + tz) \div 2}})
getMonth(t, tz) ==
  TheOne({MonthFrom(y.dayOfYear, y.year, 0) : y \in {YearFrom((t + tz) \div 2, 2024)}})

\* date-fns differenceInDays(later, earlier): full days, truncated towards zero
differenceInDays(later, earlier) ==
  IF later >= earlier THEN (later - earlier) \div 2 ELSE 0 - ((earlier - later) \div 2)

\* Math.round(num / den) for num >= 0, den > 0: halves round up
RoundDiv(num, den) == (2 * num + den) \div (2 * den)

(* ---------------- ProrationEngine ---------------- *)
MINIMUM_CHARGE == 100

NoProrationDetails ==
  [present |-> FALSE, immediate_invoice |-> FALSE, upsell_start_date |-> MissingDate,
   subscription_update |-> FALSE]

validateDates_m(startDate, endDate, now) ==
  IF startDate.kind # "ok" \/ endDate.kind # "ok"
  THEN [isValid |-> FALSE, error |-> "Invalid dates provided for proration calculation",
        effectiveStart |-> 0, daysRemaining |-> 0]
  ELSE IF startDate.day >= endDate.day
  THEN [isValid |-> FALSE, error |-> "Start date must be before end date for proration",
        effectiveStart |-> 0, daysRemaining |-> 0]
  ELSE LET effectiveStart == IF 2 * startDate.day < now THEN now ELSE 2 * startDate.day
           daysRemaining == differenceInDays(2 * endDate.day, effectiveStart)
       IN IF daysRemaining < 0
          THEN [isValid |-> FALSE, error |-> "No days remaining for proration",
                effectiveStart |-> 0, daysRemaining |-> 0]
          ELSE [isValid |-> TRUE, error |-> "", effectiveStart |-> effectiveStart,
                daysRemaining |-> daysRemaining]
validateDates(startDate, endDate, now) ==
  IF startDate.kind # "ok" \/ endDate.kind # "ok"
  THEN [isValid |-> FALSE, error |-> "Invalid dates provided for proration calculation",
        effectiveStart |-> 0, daysRemaining |-> 0]
  ELSE IF startDate.day >= endDate.day
  THEN [isValid |-> FALSE, error |-> "Start date must be before end date for proration",
        effectiveStart |-> 0, daysRemaining |-> 0]
  ELSE LET effectiveStart == IF 2 * startDate.day < now THEN now ELSE 2 * startDate.day
           daysRemaining == differenceInDays(2 * endDate.day, effectiveStart)
       IN IF daysRemaining <= 0
          THEN [isValid |-> FALSE, error |-> "No days remaining for proration",
                effectiveStart |-> 0, daysRemaining |-> 0]
          ELSE [isValid |-> TRUE, error |-> "", effectiveStart |-> effectiveStart,
                daysRemaining |-> daysRemaining]

\* unit_price is a JavaScript number: the price of the item is
\* lineItem.unit_price / den, so that den = 100 writes a price in cents; every
\* price of one item (unit_price, previous_price) has the same den.
\* Math.round(monthlyAmount / daysInMonth * daysRemaining * 100)
calculateMonthlyProration(monthlyAmount, den, startDate, daysRemaining, tz) ==
  LET daysInMonth == DaysInMonth(getFullYear(startDate, tz), getMonth(startDate, tz))
  IN RoundDiv(monthlyAmount * daysRemaining * 100, daysInMonth * den)

calculateQuarterlyProration(monthlyAmount, den, startDate, daysRemaining, tz) ==
  LET quarterlyAmount == monthlyAmount * 3
      year == getFullYear(startDate, tz)
      first == (getMonth(startDate, tz) \div 3) * 3
      daysInQuarter == DaysInMonth(year, first) + DaysInMonth(year, first + 1)
                       + DaysInMonth(year, first + 2)
  IN RoundDiv(quarterlyAmount * daysRemaining * 100, daysInQuarter * den)

calculateAnnualProration(monthlyAmount, den, startDate, daysRemaining, tz) ==
  LET annualAmount == monthlyAmount * 12
      daysInYear == IF IsLeapYear(getFullYear(startDate, tz)) THEN 366 ELSE 365
  IN RoundDiv(annualAmount * daysRemaining * 100, daysInYear * den)

calculateBaseProration(monthlyAmount, den, startDate, daysRemaining, billingFrequency, tz) ==
  CASE billingFrequency = "monthly" ->
         calculateMonthlyProration(monthlyAmount, den, startDate, daysRemaining, tz)
    [] billingFrequency = "quarterly" ->
         calculateQuarterlyProration(monthlyAmount, den, startDate, daysRemaining, tz)
    [] billingFrequency = "annually" ->
         calculateAnnualProration(monthlyAmount, den, startDate, daysRemaining, tz)
    [] OTHER -> calculateMonthlyProration(monthlyAmount, den, startDate, daysRemaining, tz)

applyProrationBusinessRules_m(baseProration, lineItem, prorationDetails, now) ==
  LET delayed == /\ prorationDetails.immediate_invoice
                 /\ prorationDetails.upsell_start_date.kind = "ok"
                 /\ 2 * prorationDetails.upsell_start_date.day > now
      afterInvoice == IF delayed THEN RoundDiv(baseProration * 9, 10) ELSE baseProration
      priceDifference == lineItem.unit_price - lineItem.previous_price
  IN IF /\ prorationDetails.subscription_update
        /\ lineItem.previous_price > 0
        /\ priceDifference > 0
     THEN RoundDiv(afterInvoice * priceDifference, lineItem.unit_price)
     ELSE afterInvoice
applyProrationBusinessRules(baseProration, lineItem, prorationDetails, now) ==
  LET delayed == /\ prorationDetails.immediate_invoice
                 /\ prorationDetails.upsell_start_date.kind = "ok"
                 /\ 2 * prorationDetails.upsell_start_date.day > now
                 /\ differenceInDays(2 * prorationDetails.upsell_start_date.day, now) > 0
      afterInvoice == IF delayed THEN RoundDiv(baseProration * 9, 10) ELSE baseProration
      priceDifference == lineItem.unit_price - lineItem.previous_price
  IN IF /\ prorationDetails.subscription_update
        /\ lineItem.previous_price > 0
        /\ priceDifference > 0
     THEN RoundDiv(afterInvoice * priceDifference, lineItem.unit_price)
     ELSE afterInvoice

applyMinimumChargeRules_m(baseProration, lineItem) ==
  IF baseProration > 0 /\ baseProration <= MINIMUM_CHARGE
  THEN IF lineItem.item_classification = "subscription_consumption"
          \/ lineItem.affects_base_subscription
       THEN MINIMUM_CHARGE
       ELSE 0
  ELSE baseProration
applyMinimumChargeRules(baseProration, lineItem) ==
  IF baseProration > 0 /\ baseProration < MINIMUM_CHARGE
  THEN IF lineItem.item_classification = "subscription_consumption"
          \/ lineItem.affects_base_subscription
       THEN MINIMUM_CHARGE
       ELSE 0
  ELSE baseProration

generateProrationNotes(lineItem, billingFrequency) ==
  <<billingFrequency, "proration applied">>
  \o (IF lineItem.item_classification # ""
      THEN <<"Classification:", lineItem.item_classification>> ELSE <<>>)
  \o (IF lineItem.affects_base_subscription THEN <<"Affects base subscription">> ELSE <<>>)

calculateProrationOf(lineItem, den, startDate, endDate, billingFrequency, prorationDetails, now, tz) ==
  LET v == validateDates(startDate, endDate, now) IN
  IF ~v.isValid
  THEN [amountInCents |-> 0, calculationMethod |-> <<"invalid_dates">>, daysCalculated |-> 0,
        billingFrequency |-> billingFrequency, notes |-> <<v.error>>]
  ELSE LET monthlyAmount == lineItem.unit_price * lineItem.quantity
           base == calculateBaseProration(monthlyAmount, den, v.effectiveStart,
                                          v.daysRemaining, billingFrequency, tz)
           adjusted == IF prorationDetails.present
                       THEN applyProrationBusinessRules(base, lineItem, prorationDetails, now)
                       ELSE base
       IN [amountInCents |-> applyMinimumChargeRules(adjusted, lineItem),
           calculationMethod |-> <<billingFrequency, "_based">>,
           daysCalculated |-> v.daysRemaining,
           billingFrequency |-> billingFrequency,
           notes |-> generateProrationNotes(lineItem, billingFrequency)]

\* a price in whole currency units
calculateProration(lineItem, startDate, endDate, billingFrequency, prorationDetails, now, tz) ==
  calculateProrationOf(lineItem, 1, startDate, endDate, billingFrequency,
                       prorationDetails, now, tz)

(* ---------------- RecurlyClient: provider-assigned identifiers ---------------- *)
\* the uuid the provider gives to the next created subscription: fresh, i.e.
\* different from every existing subscription and every earlier creation
NewUuid(state, created) == Len(state.subscriptions) + Len(created) + 1

(* ---------------- try / catch ---------------- *)
\* handlers is the stack of enclosing catch blocks, innermost last.  A throw
\* transfers control to the innermost one; with none left the exception
\* reaches the caller of BillingEngine.generateActions ("crashed").
ThrowTo(h) == IF h = <<>> THEN "crashed" ELSE h[Len(h)]
Unwind(h) == IF h = <<>> THEN <<>> ELSE SubSeq(h, 1, Len(h) - 1)

\* an awaited provider call rejects inside a try block: control leaves the
\* block for its catch clause (here is the position of the failing statement)
Raise_m(h, here) == [pc |-> here, handlers |-> h]
Raise(h, here) == [pc |-> ThrowTo(h), handlers |-> Unwind(h)]

\* actions.push(action)
Push_m(acts, action) == <<action>> \o acts
Push(acts, action) == Append(acts, action)

\* "for (const sub of created) { try { await cancel... } catch { push } }":
\* the index of the next element, whether the call succeeded or not
RollbackNext_m(i, ok, n) == IF ok THEN i + 1 ELSE n + 1
RollbackNext(i, ok, n) == i + 1

(* ---------------- action builders: BillingEngine, ActionFactory ---------------- *)
\* BillingEngine.generateActions catch block / ActionFactory.handleError
CriticalErrorActions_m(opp, err) == <<>>
CriticalErrorActions(opp, err) ==
  << [BillingAction EXCEPT
        !.type = "error",
        !.description = <<"Critical error during", opp.type, "processing">>,
        !.details = [NoDetails EXCEPT !.error = err, !.opportunity_id = opp.id],
        !.requires_review = TRUE,
        !.risk_level = "high",
        !.notes = <<"Processing completely failed", "Manual intervention required">>] >>

HighRiskAction(opp, risk) ==
  [BillingAction EXCEPT
     !.type = "error",
     !.description = <<"High-risk opportunity detected">>,
     !.details = [NoDetails EXCEPT !.risk_score = risk.score,
                                   !.risk_factors = risk.factors,
                                   !.opportunity_id = opp.id],
     !.requires_review = TRUE,
     !.risk_level = "high",
     !.notes = <<"Opportunity requires special attention due to risk factors",
                 "Risk score">> \o risk.factors]

\* actions.unshift(...) when the opportunity risk is high
WithRiskWarning_m(opp, risk, acts) ==
  IF risk.riskLevel = "high" THEN Append(acts, HighRiskAction(opp, risk)) ELSE acts
WithRiskWarning(opp, risk, acts) ==
  IF risk.riskLevel = "high" THEN <<HighRiskAction(opp, risk)>> \o acts ELSE acts

(* ---------------- action builders shared by the generators ---------------- *)
\* the "if (!recurlyState)" guard of the renewal, insertion and conversion generators
MissingState_m(state) == FALSE
MissingState(state) == ~state.present

MissingAccountAction_m(kind, note) ==
  [BillingAction EXCEPT
     !.type = "error",
     !.description = <<"ERROR:", kind, "opportunity but no existing Recurly account found">>,
     !.requires_review = TRUE,
     !.risk_level = "high",
     !.notes = <<note>>]
MissingAccountAction(kind, note) ==
  [BillingAction EXCEPT
     !.type = "create_account",
     !.description = <<"ERROR:", kind, "opportunity but no existing Recurly account found">>,
     !.requires_review = TRUE,
     !.risk_level = "high",
     !.notes = <<note>>]

\* one iteration of the "Rollback subscriptions" loop of rollbackItems
RollbackCancelAction(sub, ok, what, note) ==
  IF ok
  THEN [BillingAction EXCEPT
          !.type = "cancel_subscription",
          !.description = <<"Rollback: Cancel", what, sub.plan_code>>,
          !.details = [NoDetails EXCEPT !.subscription_id = sub.uuid],
          !.requires_review = TRUE,
          !.risk_level = "high",
          !.notes = <<note>>]
  ELSE [BillingAction EXCEPT
          !.type = "cancel_subscription",
          !.description = <<"Rollback failed: Could not cancel", what, sub.plan_code>>,
          !.details = [NoDetails EXCEPT !.subscription_id = sub.uuid],
          !.requires_review = TRUE,
          !.risk_level = "high",
          !.notes = <<"Rollback failed", "cancelSubscription failed">>]

\* handleError of a generator: the terminal error action
ProcessingErrorAction_m(kind, opp, err) ==
  [BillingAction EXCEPT
     !.type = "error",
     !.description = <<"Error during", kind, "processing">>,
     !.details = [NoDetails EXCEPT !.error = err, !.opportunity_id = opp.id],
     !.requires_review = FALSE,
     !.risk_level = "medium",
     !.notes = <<"Processing halted, rollback attempted">>]
ProcessingErrorAction(kind, opp, err) ==
  [BillingAction EXCEPT
     !.type = "error",
     !.description = <<"Error during", kind, "processing">>,
     !.details = [NoDetails EXCEPT !.error = err, !.opportunity_id = opp.id],
     !.requires_review = TRUE,
     !.risk_level = "high",
     !.notes = <<"Processing halted, rollback attempted">>]

\* the subscription data sent with createSubscription / updateSubscription
SubscriptionData(item, collection, terms) ==
  [plan_code |-> item.product_code, unit_amount_in_cents |-> item.unit_price * 100,
   quantity |-> item.quantity, collection_method |-> collection, net_terms |-> terms]

\* the response of createSubscription as kept in createdSubscriptions
CreatedSubscription_m(uuid, item) ==
  [uuid |-> 1, plan_code |-> item.product_code,
   unit_amount_in_cents |-> item.unit_price * 100, quantity |-> item.quantity]
CreatedSubscription(uuid, item) ==
  [uuid |-> uuid, plan_code |-> item.product_code,
   unit_amount_in_cents |-> item.unit_price * 100, quantity |-> item.quantity]

CreatedCharge(action) ==
  [type |-> action.type, amount_in_cents |-> action.amount_in_cents,
   line_item |-> action.line_item]

(* ---------------- NewBusinessActionGenerator ---------------- *)
NB_createAccountAction(opp) ==
  [BillingAction EXCEPT
     !.type = "create_account",
     !.description = <<"Create new Recurly account for", opp.account_id>>,
     !.requires_review = FALSE,
     !.risk_level = "low"]

NB_createOneTimeChargeAction_m(item, i) ==
  [BillingAction EXCEPT
     !.type = "charge_one_time",
     !.description = <<"One-time charge:", item.product_name>>,
     !.amount_in_cents = item.total_price * 100,
     !.requires_review = item.total_price > 1000,
     !.risk_level = calculateRiskLevel(item.total_price),
     !.notes = IF item.total_price >= 5000 THEN <<"High-value one-time charge">> ELSE <<>>,
     !.line_item = i]
NB_createOneTimeChargeAction(item, i) ==
  [BillingAction EXCEPT
     !.type = "charge_one_time",
     !.description = <<"One-time charge:", item.product_name>>,
     !.amount_in_cents = item.total_price * 100,
     !.requires_review = item.total_price > 1000,
     !.risk_level = calculateRiskLevel(item.total_price),
     !.notes = IF item.total_price > 5000 THEN <<"High-value one-time charge">> ELSE <<>>,
     !.line_item = i]

NB_createSubscriptionAction_m(item, i, uuid) ==
  [BillingAction EXCEPT
     !.type = "create_subscription",
     !.description = <<"Create subscription:", item.product_name, item.billing_period>>,
     !.details = [NoDetails EXCEPT !.subscription_id = uuid],
     !.amount_in_cents = item.total_price * 100,
     !.requires_review = item.total_price >= 1000,
     !.risk_level = "low",
     !.line_item = i]
NB_createSubscriptionAction(item, i, uuid) ==
  [BillingAction EXCEPT
     !.type = "create_subscription",
     !.description = <<"Create subscription:", item.product_name, item.billing_period>>,
     !.details = [NoDetails EXCEPT !.subscription_id = uuid],
     !.amount_in_cents = item.total_price * 100,
     !.requires_review = FALSE,
     !.risk_level = "low",
     !.line_item = i]

\* the tail of rollbackItems: the note on one-time charges
NB_chargesNote(charges) ==
  IF Len(charges) > 0
  THEN << [BillingAction EXCEPT
             !.type = "error",
             !.description = <<"One-time charges cannot be rolled back">>,
             !.requires_review = TRUE,
             !.risk_level = "high",
             !.notes = <<"Manual intervention required for charge reversals">>] >>
  ELSE <<>>

NB_handleError_m(err, opp, account) ==
  << [BillingAction EXCEPT
        !.type = "error",
        !.description = <<"Account", opp.account_id, "created but processing failed">>,
        !.requires_review = TRUE,
        !.risk_level = "high",
        !.notes = <<"Manual intervention required to close/delete account",
                    "Rollback due to error during new business processing">>] >>
  \o <<ProcessingErrorAction("new business", opp, err)>>
NB_handleError(err, opp, account) ==
  (IF account
   THEN << [BillingAction EXCEPT
              !.type = "error",
              !.description = <<"Account", opp.account_id, "created but processing failed">>,
              !.requires_review = TRUE,
              !.risk_level = "high",
              !.notes = <<"Manual intervention required to close/delete account",
                          "Rollback due to error during new business processing">>] >>
   ELSE <<>>)
  \o <<ProcessingErrorAction("new business", opp, err)>>

(* ---------------- InsertionOrderActionGenerator ---------------- *)
\* the branch the line-item loop takes: if (one_time) ... else if
\* (proration_needed) ... else ...
IO_itemKind_m(item) ==
  IF item.proration_needed THEN "proration"
  ELSE IF item.billing_period = "one_time" THEN "one_time"
  ELSE "subscription"
IO_itemKind(item) ==
  IF item.billing_period = "one_time" THEN "one_time"
  ELSE IF item.proration_needed THEN "proration"
  ELSE "subscription"

\* opportunity.outstanding_invoices?.has_outstanding
HasOutstanding_m(opp) == opp.outstanding_invoices.present
HasOutstanding(opp) ==
  opp.outstanding_invoices.present /\ opp.outstanding_invoices.has_outstanding

IO_createOutstandingInvoiceAction(opp) ==
  [BillingAction EXCEPT
     !.type = "create_invoice",
     !.description = <<"Process outstanding invoices">>,
     !.amount_in_cents = opp.outstanding_invoices.total_outstanding * 100,
     !.requires_review = TRUE,
     !.risk_level = "medium",
     !.notes = <<"Outstanding invoices must be processed before new charges">>]

IO_createOneTimeChargeAction(item, i) ==
  [BillingAction EXCEPT
     !.type = "charge_one_time",
     !.description = <<"One-time charge:", item.product_name>>,
     !.amount_in_cents = item.total_price * 100,
     !.requires_review = item.total_price > 1000,
     !.risk_level = calculateRiskLevel(item.total_price),
     !.notes = IF item.immediate_invoice THEN <<"Immediate invoicing required">> ELSE <<>>,
     !.line_item = i]

IO_createProrationAction(item, i, opp, clock, tz) ==
  LET prorationResult ==
        calculateProration(item, opp.contract_start_date, opp.contract_end_date,
                           opp.billing_frequency, opp.proration_details, clock, tz)
  IN [BillingAction EXCEPT
        !.type = "prorate_charges",
        !.description = <<"Prorate charges for:", item.product_name>>,
        !.amount_in_cents = prorationResult.amountInCents,
        !.requires_review = TRUE,
        !.risk_level = "medium",
        !.notes = <<"Proration calculation - verify dates and amounts", "Classification:",
                    IF item.item_classification # "" THEN item.item_classification
                    ELSE "unknown">>
                  \o prorationResult.notes,
        !.line_item = i]

IO_createSubscriptionAction(item, i, uuid) ==
  [BillingAction EXCEPT
     !.type = "create_subscription",
     !.description = <<"Add subscription:", item.product_name>>,
     !.details = [NoDetails EXCEPT !.subscription_id = uuid],
     !.amount_in_cents = item.total_price * 100,
     !.requires_review = FALSE,
     !.risk_level = "low",
     !.line_item = i]

\* the tail of rollbackItems: the note on charges and invoices
IO_chargesNote_m(charges, invoices) ==
  IF Len(charges) > 0
  THEN << [BillingAction EXCEPT
             !.type = "error",
             !.description = <<"Charges and invoices cannot be automatically rolled back">>,
             !.requires_review = TRUE,
             !.risk_level = "high",
             !.notes = <<"Manual intervention required for charge/invoice reversals">>] >>
  ELSE <<>>
IO_chargesNote(charges, invoices) ==
  IF Len(charges) > 0 \/ Len(invoices) > 0
  THEN << [BillingAction EXCEPT
             !.type = "error",
             !.description = <<"Charges and invoices cannot be automatically rolled back">>,
             !.requires_review = TRUE,
             !.risk_level = "high",
             !.notes = <<"Manual intervention required for charge/invoice reversals">>] >>
  ELSE <<>>

(* ---------------- RenewalActionGenerator ---------------- *)
\* recurlyState.subscriptions.find(...): the index of the first match, 0 if none
findMatchingSubscription_m(state, lineItem) ==
  LET matches(sub) == sub.plan_code = lineItem.product_code
      hits == {k \in 1..Len(state.subscriptions) : matches(state.subscriptions[k])}
  IN IF hits = {} THEN 0 ELSE CHOOSE k \in hits : \A j \in hits : k <= j
findMatchingSubscription(state, lineItem) ==
  LET matches(sub) == \/ sub.plan_code = lineItem.product_code
                      \/ Includes(sub.plan_code, lineItem.product_code)
                      \/ Includes(lineItem.product_code, sub.plan_code)
      hits == {k \in 1..Len(state.subscriptions) : matches(state.subscriptions[k])}
  IN IF hits = {} THEN 0 ELSE CHOOSE k \in hits : \A j \in hits : k <= j

\* what updateExistingSubscription stores in originalStates
OriginalState_m(sub) ==
  [plan_code |-> sub.plan_code, unit_amount_in_cents |-> sub.unit_amount_in_cents,
   quantity |-> sub.quantity + 1, collection_method |-> "", net_terms |-> 0]
OriginalState(sub) ==
  [plan_code |-> sub.plan_code, unit_amount_in_cents |-> sub.unit_amount_in_cents,
   quantity |-> sub.quantity, collection_method |-> "", net_terms |-> 0]

\* priceChange = item.unit_price - existing.unit_amount_in_cents / 100, kept in cents
RN_updateSubscriptionAction_m(item, i, existing) ==
  LET priceChangeCents == item.unit_price * 100 - existing.unit_amount_in_cents
      absCents == IF priceChangeCents < 0 THEN 0 - priceChangeCents ELSE priceChangeCents
  IN [BillingAction EXCEPT
        !.type = "update_subscription",
        !.description = <<"Update subscription:", item.product_name>>,
        !.details = [NoDetails EXCEPT !.subscription_id = existing.uuid],
        !.amount_in_cents = item.total_price * 100,
        !.requires_review = absCents >= 100 * 100,
        !.risk_level = calculateRiskLevelOf(absCents, 100),
        !.notes = IF item.price_change_reason # "" THEN <<item.price_change_reason>> ELSE <<>>,
        !.line_item = i]
RN_updateSubscriptionAction(item, i, existing) ==
  LET priceChangeCents == item.unit_price * 100 - existing.unit_amount_in_cents
      absCents == IF priceChangeCents < 0 THEN 0 - priceChangeCents ELSE priceChangeCents
  IN [BillingAction EXCEPT
        !.type = "update_subscription",
        !.description = <<"Update subscription:", item.product_name>>,
        !.details = [NoDetails EXCEPT !.subscription_id = existing.uuid],
        !.amount_in_cents = item.total_price * 100,
        !.requires_review = absCents > 100 * 100,
        !.risk_level = calculateRiskLevelOf(absCents, 100),
        !.notes = IF item.price_change_reason # "" THEN <<item.price_change_reason>> ELSE <<>>,
        !.line_item = i]

RN_createNewSubscriptionAction(item, i, uuid) ==
  [BillingAction EXCEPT
     !.type = "create_subscription",
     !.description = <<"Create new subscription:", item.product_name>>,
     !.details = [NoDetails EXCEPT !.subscription_id = uuid],
     !.amount_in_cents = item.total_price * 100,
     !.requires_review = TRUE,
     !.risk_level = "medium",
     !.notes = <<"New product added during renewal">>,
     !.line_item = i]

\* one iteration of the "Rollback updated subscriptions" loop of rollbackItems
RN_restoreAction(upd, ok) ==
  IF ok
  THEN [BillingAction EXCEPT
          !.type = "update_subscription",
          !.description = <<"Rollback: Restore subscription", upd.plan_code, "to original state">>,
          !.details = [NoDetails EXCEPT !.subscription_id = upd.uuid],
          !.requires_review = TRUE,
          !.risk_level = "high",
          !.notes = <<"Rollback due to error during renewal processing">>]
  ELSE [BillingAction EXCEPT
          !.type = "update_subscription",
          !.description = <<"Rollback failed: Could not restore subscription", upd.plan_code>>,
          !.details = [NoDetails EXCEPT !.subscription_id = upd.uuid],
          !.requires_review = TRUE,
          !.risk_level = "high",
          !.notes = <<"Rollback failed", "updateSubscription failed">>]

(* ---------------- ConversionActionGenerator ---------------- *)
\* if (subscription.state === "active")
IsActive_m(sub) == TRUE
IsActive(sub) == sub.state = "active"

CV_cancelSelfServiceAction(sub) ==
  [BillingAction EXCEPT
     !.type = "cancel_subscription",
     !.description = <<"Cancel self-service subscription:", sub.plan_code>>,
     !.details = [NoDetails EXCEPT !.subscription_id = sub.uuid],
     !.requires_review = FALSE,
     !.risk_level = "medium",
     !.notes = <<"Ensure no service interruption during transition">>]

CV_createCreditAction(opp) ==
  [BillingAction EXCEPT
     !.type = "apply_credit",
     !.description = <<"Apply credit for unused self-service period">>,
     !.amount_in_cents = opp.credit_amount_due * 100,
     !.requires_review = TRUE,
     !.risk_level = "medium",
     !.notes = <<"Verify credit calculation is correct">>]

CV_createEnterpriseSubscriptionAction(item, i, uuid) ==
  [BillingAction EXCEPT
     !.type = "create_subscription",
     !.description = <<"Create enterprise subscription:", item.product_name>>,
     !.details = [NoDetails EXCEPT !.subscription_id = uuid],
     !.amount_in_cents = item.total_price * 100,
     !.requires_review = FALSE,
     !.risk_level = "low",
     !.line_item = i]

\* the tail of rollbackItems: the note on cancelled subscriptions and credits
CV_manualRollbackNote(cancelled, credits) ==
  IF Len(cancelled) > 0 \/ Len(credits) > 0
  THEN << [BillingAction EXCEPT
             !.type = "error",
             !.description = <<"Cancelled subscriptions and applied credits require manual rollback">>,
             !.requires_review = TRUE,
             !.risk_level = "high",
             !.notes = <<"Manual intervention required to restore cancelled subscriptions and reverse credits">>] >>
  ELSE <<>>

(* ---------------- state ---------------- *)
VARIABLES
  opportunity,            \* input: the opportunity record
  recurlyState,           \* input: RecurlyState | null
  pc,                     \* position in the code
  handlers,               \* stack of enclosing catch blocks
  error,                  \* the exception being handled
  opportunityRisk,        \* BillingEngine.generateActions: opportunityRisk
  actions,                \* the generator's (then the dispatcher's) action list
  result,                 \* the list returned by BillingEngine.generateActions
  createdAccount,         \* NewBusiness: createdAccount !== null
  createdSubscriptions,   \* rollback bookkeeping of the running generator
  createdCharges,
  createdInvoices,
  updatedSubscriptions,
  cancelledSubscriptions,
  appliedCredits,
  idx,                    \* index of the current element of the forward loop
  rbIdx,                  \* index of the current element of a rollback loop
  rbPass,                 \* which call of rollbackItems is running (1: item catch, 2: outer catch)
  calls,                  \* log of the provider calls issued so far
  now,                    \* the clock (new Date()), in half days
  args,                   \* arguments of an engine method called on its own
  validation,             \* ProrationEngine.calculateProration: validation
  baseProration,          \* ProrationEngine.calculateProration: baseProration
  returned,               \* log of the values such calls have returned
  peers                   \* two invocations on one engine: the suspended one, the outcomes

inputs == <<opportunity, recurlyState, now>>
unitCall == <<args, validation, baseProration, returned>>

\* a single invocation: no other invocation is in flight on the engine
NoPeers == [phase |-> "solo"]

\* no engine method is being called on its own
NoArgs == [fn |-> ""]
NoValidation == [isValid |-> FALSE, error |-> "", effectiveStart |-> 0, daysRemaining |-> 0]
NoUnitCall ==
  /\ args = NoArgs
  /\ validation = NoValidation
  /\ baseProration = 0
  /\ returned = <<>>
book == <<createdAccount, createdSubscriptions, createdCharges, createdInvoices,
          updatedSubscriptions, cancelledSubscriptions, appliedCredits>>
vars == <<opportunity, recurlyState, pc, handlers, error, opportunityRisk, actions,
          result, createdAccount, createdSubscriptions, createdCharges, createdInvoices,
          updatedSubscriptions, cancelledSubscriptions, appliedCredits, idx, rbIdx,
          rbPass, calls, now, args, validation, baseProration, returned, peers>>

(* ---------------- inputs ---------------- *)
\* absent optional fields: item_classification "", previous_price 0, flags FALSE
LineItem(code, name, qty, unit, period, proration, reason) ==
  [product_code |-> code, product_name |-> name, quantity |-> qty,
   unit_price |-> unit, total_price |-> unit * qty, billing_period |-> period,
   proration_needed |-> proration,
   item_classification |-> IF proration THEN "subscription_consumption" ELSE "",
   affects_base_subscription |-> FALSE, immediate_invoice |-> FALSE,
   previous_price |-> 0, price_change_reason |-> reason]

ItemKinds ==
  { LineItem("A", "Pro Plan", 1, 1000, "monthly", FALSE, "Annual price increase"),
    LineItem("B", "Setup Fee", 1, 6000, "one_time", FALSE, ""),
    LineItem("AB", "Add-on Seats", 2, 50, "monthly", TRUE, "") }

Subscription(i, kind) ==
  [uuid |-> i, plan_code |-> kind.plan_code, state |-> kind.state,
   unit_amount_in_cents |-> kind.unit_amount_in_cents, quantity |-> kind.quantity]

SubKinds ==
  { [plan_code |-> "A", state |-> "active", unit_amount_in_cents |-> 90000, quantity |-> 1],
    [plan_code |-> "B", state |-> "active", unit_amount_in_cents |-> 5000, quantity |-> 1],
    [plan_code |-> "B", state |-> "canceled", unit_amount_in_cents |-> 300000, quantity |-> 1] }

RecurlyStates ==
  {NoState} \cup
  { [present |-> TRUE, subscriptions |-> [i \in DOMAIN ks |-> Subscription(i, ks[i])]] :
      ks \in SeqsUpTo(SubKinds, 0, MaxSubs) }

OrderTypes == {"new_business", "renewal", "insertion_order", "conversion_order"}

\* outstanding_invoices?: OutstandingInvoices -- absent, nothing due, $8,000 due
NoOutstanding == [present |-> FALSE, has_outstanding |-> FALSE, total_outstanding |-> 0]
OutstandingKinds ==
  { NoOutstanding,
    [present |-> TRUE, has_outstanding |-> FALSE, total_outstanding |-> 0],
    [present |-> TRUE, has_outstanding |-> TRUE, total_outstanding |-> 8000] }

Opportunity(type, items, amount, terms, outstanding, credit) ==
  [id |-> "opp_001", type |-> type, account_id |-> "acc_123",
   contract_start_date |-> OkDate(0), contract_end_date |-> OkDate(400),
   billing_frequency |-> "monthly", proration_details |-> NoProrationDetails,
   amount |-> amount, payment_terms |-> terms, line_items |-> items,
   outstanding_invoices |-> outstanding,
   credit_amount_due |-> credit]

\* a small deal on standard terms, a large one on extended terms
RiskInputs ==
  { [amount |-> 500, terms |-> <<"net_30">>], [amount |-> 200000, terms |-> <<"net_90">>] }

\* well-formed opportunities; the fields only one order type reads vary for that type
ValidOpportunities ==
  { Opportunity(t, items, r.amount, r.terms, outstanding, credit) :
      t \in OrderTypes \cup {"upgrade"},
      items \in SeqsUpTo(ItemKinds, 1, MaxItems),
      r \in RiskInputs,
      outstanding \in OutstandingKinds,
      credit \in {0, 133} }

\* one-time items priced at and around the two risk thresholds
ChargeKinds ==
  { LineItem("B", "Setup Fee", 1, price, "one_time", FALSE, "") :
      price \in {1000, 1001, 5000, 5001} }
  \cup { LineItem("B", "Setup Fee", 1, 1000, "one_time", TRUE, "") }

\* orders of at most MaxPricedItems items that may carry such charges
PricedOpportunities ==
  { Opportunity(t, items, r.amount, r.terms, NoOutstanding, 0) :
      t \in {"new_business", "insertion_order"},
      items \in SeqsUpTo(ItemKinds \cup ChargeKinds, 1, MaxPricedItems),
      r \in RiskInputs }

\* structural defects the orchestrator's validation has to reject
Defects ==
  {"no_id", "no_type", "no_account", "no_start", "no_end", "no_items",
   "item_no_code", "item_no_name", "item_price_zero", "item_price_negative",
   "item_qty_zero", "bad_start", "bad_end", "start_eq_end", "start_after_end"}

Broken(opp, d) ==
  LET n == Len(opp.line_items) IN
  CASE d = "none" -> opp
    [] d = "no_id" -> [opp EXCEPT !.id = ""]
    [] d = "no_type" -> [opp EXCEPT !.type = ""]
    [] d = "no_account" -> [opp EXCEPT !.account_id = ""]
    [] d = "no_start" -> [opp EXCEPT !.contract_start_date = MissingDate]
    [] d = "no_end" -> [opp EXCEPT !.contract_end_date = MissingDate]
    [] d = "no_items" -> [opp EXCEPT !.line_items = <<>>]
    [] d = "item_no_code" -> [opp EXCEPT !.line_items[n].product_code = ""]
    [] d = "item_no_name" -> [opp EXCEPT !.line_items[n].product_name = ""]
    [] d = "item_price_zero" -> [opp EXCEPT !.line_items[n].unit_price = 0]
    [] d = "item_price_negative" -> [opp EXCEPT !.line_items[n].unit_price = -5]
    [] d = "item_qty_zero" -> [opp EXCEPT !.line_items[n].quantity = 0]
    [] d = "bad_start" -> [opp EXCEPT !.contract_start_date = InvalidDate]
    [] d = "bad_end" -> [opp EXCEPT !.contract_end_date = InvalidDate]
    [] d = "start_eq_end" -> [opp EXCEPT !.contract_end_date = opp.contract_start_date]
    [] d = "start_after_end" -> [opp EXCEPT !.contract_end_date = OkDate(opp.contract_start_date.day - 1)]

\* readings of the clock: at the contract start (day 0), inside the contract in
\* the middle of day 30, after the contract end (day 400)
Clock == {0, 61, 900}

(* ---------------- initial state ---------------- *)
Init ==
  /\ \E opp \in ValidOpportunities \cup PricedOpportunities, st \in RecurlyStates,
        d \in Defects \cup {"none"} :
       /\ opp \notin ValidOpportunities => Len(st.subscriptions) = 0 /\ d = "none"
       /\ opp.outstanding_invoices # NoOutstanding => opp.type = "insertion_order"
       /\ (opp.outstanding_invoices.present /\ ~opp.outstanding_invoices.has_outstanding)
            => opp.amount = 500
       /\ opp.credit_amount_due > 0 => opp.type = "conversion_order"
       /\ opp.type \in {"new_business", "upgrade", "insertion_order"}
            => Len(st.subscriptions) <= 1
       /\ opp.amount # 500 => Len(st.subscriptions) <= 1
       /\ Len(opp.line_items) + Len(st.subscriptions) <= MaxItems + 1
       /\ d # "none" => /\ opp.amount = 500
                        /\ opp.payment_terms = <<"net_30">>
                        /\ Len(st.subscriptions) = 0
       /\ opportunity = Broken(opp, d)
       /\ recurlyState = st
  /\ pc = "be_start"
  /\ handlers = <<>>
  /\ error = ""
  /\ opportunityRisk = NoRisk
  /\ actions = <<>>
  /\ result = <<>>
  /\ createdAccount = FALSE
  /\ createdSubscriptions = <<>>
  /\ createdCharges = <<>>
  /\ createdInvoices = <<>>
  /\ updatedSubscriptions = <<>>
  /\ cancelledSubscriptions = <<>>
  /\ appliedCredits = <<>>
  /\ idx = 0
  /\ rbIdx = 0
  /\ rbPass = 0
  /\ calls = <<>>
  /\ NoUnitCall
  /\ peers = NoPeers
  /\ now \in Clock
  /\ now # 0 => /\ opportunity.type = "insertion_order"
                /\ \E i \in 1..Len(opportunity.line_items) :
                      opportunity.line_items[i].proration_needed

(* ---------------- BillingEngine.generateActions ---------------- *)
\* try { validateOpportunity; calculateOpportunityRisk; ... }
BE_generateActions ==
  /\ pc = "be_start"
  /\ LET err == validateOpportunity(opportunity) IN
     IF err # ""
     THEN /\ error' = err
          /\ pc' = ThrowTo(<<"be_catch">>)
          /\ handlers' = Unwind(<<"be_catch">>)
          /\ UNCHANGED opportunityRisk
     ELSE /\ opportunityRisk' = calculateOpportunityRisk(opportunity)
          /\ pc' = "af_start"
          /\ handlers' = <<"be_catch">>
          /\ UNCHANGED error
  /\ UNCHANGED <<inputs, peers, unitCall, book, actions, result, idx, rbIdx, rbPass, calls>>

\* catch (error) { return [ critical error ] }
BE_catch ==
  /\ pc = "be_catch"
  /\ result' = CriticalErrorActions(opportunity, error)
  /\ pc' = "done"
  /\ UNCHANGED <<inputs, peers, unitCall, book, handlers, error, opportunityRisk, actions, idx, rbIdx,
                 rbPass, calls>>

\* the dispatcher has returned: unshift the risk warning, return actions
BE_return ==
  /\ pc = "af_return"
  /\ result' = WithRiskWarning(opportunity, opportunityRisk, actions)
  /\ handlers' = <<>>
  /\ pc' = "done"
  /\ UNCHANGED <<inputs, peers, unitCall, book, error, opportunityRisk, actions, idx, rbIdx, rbPass, calls>>

(* ---------------- ActionFactory.generateActions ---------------- *)
\* switch (opportunity.type): the entry of the generator the case selects, ""
\* for the default case
GeneratorFor_m(type) ==
  CASE type = "renewal" -> "rn_start"
    [] type = "insertion_order" -> "io_start"
    [] type = "conversion_order" -> "cv_start"
    [] OTHER -> "nb_start"
GeneratorFor(type) ==
  CASE type = "new_business" -> "nb_start"
    [] type = "renewal" -> "rn_start"
    [] type = "insertion_order" -> "io_start"
    [] type = "conversion_order" -> "cv_start"
    [] OTHER -> ""

\* try { switch (opportunity.type) ... default: throw }
AF_generateActions ==
  /\ pc = "af_start"
  /\ IF GeneratorFor(opportunity.type) # ""
     THEN /\ pc' = GeneratorFor(opportunity.type)
          /\ handlers' = Append(handlers, "af_catch")
          /\ UNCHANGED error
     ELSE /\ error' = "Unsupported opportunity type"
          /\ pc' = ThrowTo(Append(handlers, "af_catch"))
          /\ handlers' = Unwind(Append(handlers, "af_catch"))
  /\ UNCHANGED <<inputs, peers, unitCall, book, opportunityRisk, actions, result, idx, rbIdx, rbPass, calls>>

\* catch (error) { return this.handleError(error, opportunity) }
AF_handleError ==
  /\ pc = "af_catch"
  /\ actions' = CriticalErrorActions(opportunity, error)
  /\ pc' = "af_return"
  /\ UNCHANGED <<inputs, peers, unitCall, book, handlers, error, opportunityRisk, result, idx, rbIdx,
                 rbPass, calls>>

(* ---------------- NewBusinessActionGenerator.generateActions ---------------- *)
\* try { await createAccount(...); actions.push(create_account) ...
NB_createAccount ==
  /\ pc = "nb_start"
  /\ \E ok \in BOOLEAN :
       /\ calls' = Append(calls, Call("createAccount", 0, ok, FALSE, NoData))
       /\ IF ok
          THEN /\ createdAccount' = TRUE
               /\ actions' = Push(actions, NB_createAccountAction(opportunity))
               /\ idx' = 1
               /\ pc' = "nb_item"
               /\ handlers' = Append(handlers, "nb_catch")
               /\ UNCHANGED error
          ELSE /\ error' = "createAccount failed"
               /\ pc' = ThrowTo(Append(handlers, "nb_catch"))
               /\ handlers' = Unwind(Append(handlers, "nb_catch"))
               /\ UNCHANGED <<createdAccount, actions, idx>>
  /\ UNCHANGED <<inputs, peers, unitCall, opportunityRisk, result, createdSubscriptions, createdCharges,
                 createdInvoices, updatedSubscriptions, cancelledSubscriptions,
                 appliedCredits, rbIdx, rbPass>>

\* one iteration of "for (const item of opportunity.line_items) try { ... }
\* catch (itemError) { await this.rollbackItems(...)"
NB_item ==
  /\ pc = "nb_item"
  /\ idx <= Len(opportunity.line_items)
  /\ LET item == opportunity.line_items[idx] IN
     IF item.billing_period = "one_time"
     THEN LET action == NB_createOneTimeChargeAction(item, idx) IN
          /\ actions' = Push(actions, action)
          /\ createdCharges' = Append(createdCharges, CreatedCharge(action))
          /\ idx' = idx + 1
          /\ UNCHANGED <<pc, error, createdSubscriptions, rbIdx, rbPass, calls>>
     ELSE \E ok \in BOOLEAN :
          LET uuid == NewUuid(recurlyState, createdSubscriptions) IN
          IF ok
          THEN /\ calls' = Append(calls, Call("createSubscription", uuid, TRUE, FALSE, SubscriptionData(item, "", 0)))
               /\ actions' = Push(actions, NB_createSubscriptionAction(item, idx, uuid))
               /\ createdSubscriptions' =
                    Append(createdSubscriptions, CreatedSubscription(uuid, item))
               /\ idx' = idx + 1
               /\ UNCHANGED <<pc, error, createdCharges, rbIdx, rbPass>>
          ELSE /\ calls' = Append(calls, Call("createSubscription", 0, FALSE, FALSE, SubscriptionData(item, "", 0)))
               /\ error' = "createSubscription failed"
               /\ pc' = "nb_rollback"
               /\ rbIdx' = 1
               /\ rbPass' = 1
               /\ UNCHANGED <<actions, createdSubscriptions, createdCharges, idx>>
  /\ UNCHANGED <<inputs, peers, unitCall, handlers, opportunityRisk, result, createdAccount, createdInvoices,
                 updatedSubscriptions, cancelledSubscriptions, appliedCredits>>

\* the loop is over: leave the try block, return actions
NB_return ==
  /\ pc = "nb_item"
  /\ idx > Len(opportunity.line_items)
  /\ pc' = "af_return"
  /\ handlers' = Unwind(handlers)
  /\ UNCHANGED <<inputs, peers, unitCall, book, error, opportunityRisk, actions, result, idx, rbIdx,
                 rbPass, calls>>

\* catch (error) { await this.rollbackItems(...)
NB_catch ==
  /\ pc = "nb_catch"
  /\ pc' = "nb_rollback"
  /\ rbIdx' = 1
  /\ rbPass' = 2
  /\ UNCHANGED <<inputs, peers, unitCall, book, handlers, error, opportunityRisk, actions, result, idx, calls>>

\* rollbackItems: one iteration of the loop over createdSubscriptions
NB_rollbackItems ==
  /\ pc = "nb_rollback"
  /\ rbIdx <= Len(createdSubscriptions)
  /\ \E ok \in BOOLEAN :
       LET sub == createdSubscriptions[rbIdx] IN
       /\ calls' = Append(calls, Call("cancelSubscription", sub.uuid, ok, TRUE, NoData))
       /\ actions' = Push(actions,
            RollbackCancelAction(sub, ok, "subscription",
                                 "Rollback due to error during new business processing"))
       /\ rbIdx' = RollbackNext(rbIdx, ok, Len(createdSubscriptions))
  /\ UNCHANGED <<inputs, peers, unitCall, book, pc, handlers, error, opportunityRisk, result, idx, rbPass>>

\* rollbackItems: after the loop, the note on one-time charges; then, in the
\* item catch block "throw itemError", in the outer one "this.handleError(...)"
\* and "return actions"
NB_rollbackDone ==
  /\ pc = "nb_rollback"
  /\ rbIdx > Len(createdSubscriptions)
  /\ IF rbPass = 1
     THEN /\ actions' = actions \o NB_chargesNote(createdCharges)
          /\ pc' = ThrowTo(handlers)
          /\ handlers' = Unwind(handlers)
     ELSE /\ actions' = actions \o NB_chargesNote(createdCharges)
                        \o NB_handleError(error, opportunity, createdAccount)
          /\ pc' = "af_return"
          /\ UNCHANGED handlers
  /\ UNCHANGED <<inputs, peers, unitCall, book, error, opportunityRisk, result, idx, rbIdx, rbPass, calls>>

(* ---------------- InsertionOrderActionGenerator.generateActions ---------------- *)
\* if (!recurlyState) { push ERROR; return } ... try { outstanding invoices first
IO_generateActions ==
  /\ pc = "io_start"
  /\ IF MissingState(recurlyState)
     THEN /\ actions' = <<MissingAccountAction("Insertion order",
                 "Manual intervention required - account should exist for insertion order")>>
          /\ pc' = "af_return"
          /\ UNCHANGED <<handlers, createdInvoices, idx>>
     ELSE /\ IF HasOutstanding(opportunity)
             THEN LET invoiceAction == IO_createOutstandingInvoiceAction(opportunity) IN
                  /\ actions' = <<invoiceAction>>
                  /\ createdInvoices' = <<CreatedCharge(invoiceAction)>>
             ELSE UNCHANGED <<actions, createdInvoices>>
          /\ idx' = 1
          /\ pc' = "io_item"
          /\ handlers' = Append(handlers, "io_catch")
  /\ UNCHANGED <<inputs, peers, unitCall, error, opportunityRisk, result, createdAccount, createdSubscriptions,
                 createdCharges, updatedSubscriptions, cancelledSubscriptions, appliedCredits,
                 rbIdx, rbPass, calls>>

\* one iteration of the line-item loop, with its catch (itemError)
IO_item ==
  /\ pc = "io_item"
  /\ idx <= Len(opportunity.line_items)
  /\ LET item == opportunity.line_items[idx] IN
     IF IO_itemKind(item) # "subscription"
     THEN \E action \in IF IO_itemKind(item) = "one_time"
                         THEN {IO_createOneTimeChargeAction(item, idx)}
                         ELSE {IO_createProrationAction(item, idx, opportunity, now, tz) :
                                 tz \in TimeZones} :
          /\ actions' = Push(actions, action)
          /\ createdCharges' = Append(createdCharges, CreatedCharge(action))
          /\ idx' = idx + 1
          /\ UNCHANGED <<pc, error, createdSubscriptions, rbIdx, rbPass, calls>>
     ELSE \E ok \in BOOLEAN :
          LET uuid == NewUuid(recurlyState, createdSubscriptions) IN
          IF ok
          THEN /\ calls' = Append(calls, Call("createSubscription", uuid, TRUE, FALSE,
                                               SubscriptionData(item, "", 0)))
               /\ actions' = Push(actions, IO_createSubscriptionAction(item, idx, uuid))
               /\ createdSubscriptions' =
                    Append(createdSubscriptions, CreatedSubscription(uuid, item))
               /\ idx' = idx + 1
               /\ UNCHANGED <<pc, error, createdCharges, rbIdx, rbPass>>
          ELSE /\ calls' = Append(calls, Call("createSubscription", 0, FALSE, FALSE,
                                               SubscriptionData(item, "", 0)))
               /\ error' = "createSubscription failed"
               /\ pc' = "io_rollback"
               /\ rbIdx' = 1
               /\ rbPass' = 1
               /\ UNCHANGED <<actions, createdSubscriptions, createdCharges, idx>>
  /\ UNCHANGED <<inputs, peers, unitCall, handlers, opportunityRisk, result, createdAccount, createdInvoices,
                 updatedSubscriptions, cancelledSubscriptions, appliedCredits>>

IO_return ==
  /\ pc = "io_item"
  /\ idx > Len(opportunity.line_items)
  /\ pc' = "af_return"
  /\ handlers' = Unwind(handlers)
  /\ UNCHANGED <<inputs, peers, unitCall, book, error, opportunityRisk, actions, result, idx, rbIdx,
                 rbPass, calls>>

\* catch (error) { await this.rollbackItems(...)
IO_catch ==
  /\ pc = "io_catch"
  /\ pc' = "io_rollback"
  /\ rbIdx' = 1
  /\ rbPass' = 2
  /\ UNCHANGED <<inputs, peers, unitCall, book, handlers, error, opportunityRisk, actions, result, idx, calls>>

IO_rollbackItems ==
  /\ pc = "io_rollback"
  /\ rbIdx <= Len(createdSubscriptions)
  /\ \E ok \in BOOLEAN :
       LET sub == createdSubscriptions[rbIdx] IN
       /\ calls' = Append(calls, Call("cancelSubscription", sub.uuid, ok, TRUE, NoData))
       /\ actions' = Push(actions,
            RollbackCancelAction(sub, ok, "subscription",
                                 "Rollback due to error during insertion order processing"))
       /\ rbIdx' = RollbackNext(rbIdx, ok, Len(createdSubscriptions))
  /\ UNCHANGED <<inputs, peers, unitCall, book, pc, handlers, error, opportunityRisk, result, idx, rbPass>>

\* after the loop: the note; then "throw itemError" (item catch) or
\* "this.handleError(...); return actions" (outer catch)
IO_rollbackDone ==
  /\ pc = "io_rollback"
  /\ rbIdx > Len(createdSubscriptions)
  /\ IF rbPass = 1
     THEN /\ actions' = actions \o IO_chargesNote(createdCharges, createdInvoices)
          /\ pc' = ThrowTo(handlers)
          /\ handlers' = Unwind(handlers)
     ELSE /\ actions' = actions \o IO_chargesNote(createdCharges, createdInvoices)
                        \o <<ProcessingErrorAction("insertion order", opportunity, error)>>
          /\ pc' = "af_return"
          /\ UNCHANGED handlers
  /\ UNCHANGED <<inputs, peers, unitCall, book, error, opportunityRisk, result, idx, rbIdx, rbPass, calls>>

(* ---------------- RenewalActionGenerator.generateActions ---------------- *)
RN_generateActions ==
  /\ pc = "rn_start"
  /\ IF MissingState(recurlyState)
     THEN /\ actions' = <<MissingAccountAction("Renewal",
                 "Manual intervention required - account should exist for renewal")>>
          /\ pc' = "af_return"
          /\ UNCHANGED <<handlers, idx>>
     ELSE /\ idx' = 1
          /\ pc' = "rn_item"
          /\ handlers' = Append(handlers, "rn_catch")
          /\ UNCHANGED actions
  /\ UNCHANGED <<inputs, peers, unitCall, book, error, opportunityRisk, result, rbIdx, rbPass, calls>>

\* one iteration of the line-item loop: update the matching subscription or
\* create a new one; a failing call leaves the try block
RN_item ==
  /\ pc = "rn_item"
  /\ idx <= Len(opportunity.line_items)
  /\ LET item == opportunity.line_items[idx]
         k == findMatchingSubscription(recurlyState, item) IN
     \E ok \in BOOLEAN :
       IF k # 0
       THEN LET existing == recurlyState.subscriptions[k] IN
            /\ calls' = Append(calls, Call("updateSubscription", existing.uuid, ok, FALSE,
                                            SubscriptionData(item, "", 0)))
            /\ IF ok
               THEN /\ actions' = Push(actions, RN_updateSubscriptionAction(item, idx, existing))
                    /\ updatedSubscriptions' =
                         Append(updatedSubscriptions,
                                [uuid |-> existing.uuid, plan_code |-> item.product_code,
                                 original |-> OriginalState(existing)])
                    /\ idx' = idx + 1
                    /\ UNCHANGED <<pc, handlers, error>>
               ELSE /\ error' = "updateSubscription failed"
                    /\ pc' = Raise(handlers, pc).pc
                    /\ handlers' = Raise(handlers, pc).handlers
                    /\ UNCHANGED <<actions, updatedSubscriptions, idx>>
            /\ UNCHANGED createdSubscriptions
       ELSE LET uuid == NewUuid(recurlyState, createdSubscriptions) IN
            /\ calls' = Append(calls, Call("createSubscription", IF ok THEN uuid ELSE 0, ok,
                                            FALSE, SubscriptionData(item, "", 0)))
            /\ IF ok
               THEN /\ actions' = Push(actions, RN_createNewSubscriptionAction(item, idx, uuid))
                    /\ createdSubscriptions' =
                         Append(createdSubscriptions, CreatedSubscription(uuid, item))
                    /\ idx' = idx + 1
                    /\ UNCHANGED <<pc, handlers, error>>
               ELSE /\ error' = "createSubscription failed"
                    /\ pc' = Raise(handlers, pc).pc
                    /\ handlers' = Raise(handlers, pc).handlers
                    /\ UNCHANGED <<actions, createdSubscriptions, idx>>
            /\ UNCHANGED updatedSubscriptions
  /\ UNCHANGED <<inputs, peers, unitCall, opportunityRisk, result, createdAccount, createdCharges,
                 createdInvoices, cancelledSubscriptions, appliedCredits, rbIdx, rbPass>>

RN_return ==
  /\ pc = "rn_item"
  /\ idx > Len(opportunity.line_items)
  /\ pc' = "af_return"
  /\ handlers' = Unwind(handlers)
  /\ UNCHANGED <<inputs, peers, unitCall, book, error, opportunityRisk, actions, result, idx, rbIdx,
                 rbPass, calls>>

\* catch (error) { await this.rollbackItems(...)
RN_catch ==
  /\ pc = "rn_catch"
  /\ pc' = "rn_restore"
  /\ rbIdx' = 1
  /\ rbPass' = 2
  /\ UNCHANGED <<inputs, peers, unitCall, book, handlers, error, opportunityRisk, actions, result, idx, calls>>

\* rollbackItems: one iteration of the loop over updatedSubscriptions
RN_rollbackUpdated ==
  /\ pc = "rn_restore"
  /\ rbIdx <= Len(updatedSubscriptions)
  /\ \E ok \in BOOLEAN :
       LET upd == updatedSubscriptions[rbIdx] IN
       /\ calls' = Append(calls, Call("updateSubscription", upd.uuid, ok, TRUE, upd.original))
       /\ actions' = Push(actions, RN_restoreAction(upd, ok))
       /\ rbIdx' = RollbackNext(rbIdx, ok, Len(updatedSubscriptions))
  /\ UNCHANGED <<inputs, peers, unitCall, book, pc, handlers, error, opportunityRisk, result, idx, rbPass>>

\* rollbackItems: the first loop is over, the second one starts
RN_rollbackUpdatedDone ==
  /\ pc = "rn_restore"
  /\ rbIdx > Len(updatedSubscriptions)
  /\ pc' = "rn_rollback"
  /\ rbIdx' = 1
  /\ UNCHANGED <<inputs, peers, unitCall, book, handlers, error, opportunityRisk, actions, result, idx,
                 rbPass, calls>>

\* rollbackItems: one iteration of the loop over createdSubscriptions
RN_rollbackCreated ==
  /\ pc = "rn_rollback"
  /\ rbIdx <= Len(createdSubscriptions)
  /\ \E ok \in BOOLEAN :
       LET sub == createdSubscriptions[rbIdx] IN
       /\ calls' = Append(calls, Call("cancelSubscription", sub.uuid, ok, TRUE, NoData))
       /\ actions' = Push(actions,
            RollbackCancelAction(sub, ok, "subscription",
                                 "Rollback due to error during renewal processing"))
       /\ rbIdx' = RollbackNext(rbIdx, ok, Len(createdSubscriptions))
  /\ UNCHANGED <<inputs, peers, unitCall, book, pc, handlers, error, opportunityRisk, result, idx, rbPass>>

\* rollbackItems returns; this.handleError(...); return actions
RN_rollbackDone ==
  /\ pc = "rn_rollback"
  /\ rbIdx > Len(createdSubscriptions)
  /\ actions' = Push(actions, ProcessingErrorAction("renewal", opportunity, error))
  /\ pc' = "af_return"
  /\ UNCHANGED <<inputs, peers, unitCall, book, handlers, error, opportunityRisk, result, idx, rbIdx,
                 rbPass, calls>>

(* ---------------- ConversionActionGenerator.generateActions ---------------- *)
CV_generateActions ==
  /\ pc = "cv_start"
  /\ IF MissingState(recurlyState)
     THEN /\ actions' = <<MissingAccountAction("Conversion",
                 "Manual intervention required - self-service account should exist")>>
          /\ pc' = "af_return"
          /\ UNCHANGED <<handlers, idx>>
     ELSE /\ idx' = 1
          /\ pc' = "cv_cancel"
          /\ handlers' = Append(handlers, "cv_catch")
          /\ UNCHANGED actions
  /\ UNCHANGED <<inputs, peers, unitCall, book, error, opportunityRisk, result, rbIdx, rbPass, calls>>

\* one iteration of "for (const subscription of recurlyState.subscriptions)"
CV_cancelSelfService ==
  /\ pc = "cv_cancel"
  /\ idx <= Len(recurlyState.subscriptions)
  /\ LET subscription == recurlyState.subscriptions[idx] IN
     IF IsActive(subscription)
     THEN \E ok \in BOOLEAN :
          /\ calls' = Append(calls, Call("cancelSubscription", subscription.uuid, ok, FALSE,
                                          NoData))
          /\ IF ok
             THEN /\ actions' = Push(actions, CV_cancelSelfServiceAction(subscription))
                  /\ cancelledSubscriptions' =
                       Append(cancelledSubscriptions,
                              [uuid |-> subscription.uuid, plan_code |-> subscription.plan_code,
                               original |-> OriginalState(subscription)])
                  /\ idx' = idx + 1
                  /\ UNCHANGED <<pc, handlers, error>>
             ELSE /\ error' = "cancelSubscription failed"
                  /\ pc' = Raise(handlers, pc).pc
                  /\ handlers' = Raise(handlers, pc).handlers
                  /\ UNCHANGED <<actions, cancelledSubscriptions, idx>>
     ELSE /\ idx' = idx + 1
          /\ UNCHANGED <<pc, handlers, error, actions, cancelledSubscriptions, calls>>
  /\ UNCHANGED <<inputs, peers, unitCall, opportunityRisk, result, createdAccount, createdSubscriptions,
                 createdCharges, createdInvoices, updatedSubscriptions, appliedCredits,
                 rbIdx, rbPass>>

\* the cancellation loop is over: apply the credit, start the line-item loop
CV_applyCredit ==
  /\ pc = "cv_cancel"
  /\ idx > Len(recurlyState.subscriptions)
  /\ IF opportunity.credit_amount_due # 0
     THEN LET action == CV_createCreditAction(opportunity) IN
          /\ actions' = Push(actions, action)
          /\ appliedCredits' = Append(appliedCredits, CreatedCharge(action))
     ELSE UNCHANGED <<actions, appliedCredits>>
  /\ idx' = 1
  /\ pc' = "cv_item"
  /\ UNCHANGED <<inputs, peers, unitCall, handlers, error, opportunityRisk, result, createdAccount,
                 createdSubscriptions, createdCharges, createdInvoices, updatedSubscriptions,
                 cancelledSubscriptions, rbIdx, rbPass, calls>>

\* one iteration of the line-item loop: createEnterpriseSubscription
CV_item ==
  /\ pc = "cv_item"
  /\ idx <= Len(opportunity.line_items)
  /\ LET item == opportunity.line_items[idx]
         uuid == NewUuid(recurlyState, createdSubscriptions) IN
     \E ok \in BOOLEAN :
       /\ calls' = Append(calls, Call("createSubscription", IF ok THEN uuid ELSE 0, ok, FALSE,
                                       SubscriptionData(item, "manual", 30)))
       /\ IF ok
          THEN /\ actions' = Push(actions, CV_createEnterpriseSubscriptionAction(item, idx, uuid))
               /\ createdSubscriptions' =
                    Append(createdSubscriptions, CreatedSubscription(uuid, item))
               /\ idx' = idx + 1
               /\ UNCHANGED <<pc, handlers, error>>
          ELSE /\ error' = "createSubscription failed"
               /\ pc' = Raise(handlers, pc).pc
               /\ handlers' = Raise(handlers, pc).handlers
               /\ UNCHANGED <<actions, createdSubscriptions, idx>>
  /\ UNCHANGED <<inputs, peers, unitCall, opportunityRisk, result, createdAccount, createdCharges,
                 createdInvoices, updatedSubscriptions, cancelledSubscriptions,
                 appliedCredits, rbIdx, rbPass>>

CV_return ==
  /\ pc = "cv_item"
  /\ idx > Len(opportunity.line_items)
  /\ pc' = "af_return"
  /\ handlers' = Unwind(handlers)
  /\ UNCHANGED <<inputs, peers, unitCall, book, error, opportunityRisk, actions, result, idx, rbIdx,
                 rbPass, calls>>

\* catch (error) { await this.rollbackItems(...)
CV_catch ==
  /\ pc = "cv_catch"
  /\ pc' = "cv_rollback"
  /\ rbIdx' = 1
  /\ rbPass' = 2
  /\ UNCHANGED <<inputs, peers, unitCall, book, handlers, error, opportunityRisk, actions, result, idx, calls>>

\* rollbackItems: one iteration of the loop over createdSubscriptions
CV_rollbackItems ==
  /\ pc = "cv_rollback"
  /\ rbIdx <= Len(createdSubscriptions)
  /\ \E ok \in BOOLEAN :
       LET sub == createdSubscriptions[rbIdx] IN
       /\ calls' = Append(calls, Call("cancelSubscription", sub.uuid, ok, TRUE, NoData))
       /\ actions' = Push(actions,
            RollbackCancelAction(sub, ok, "enterprise subscription",
                                 "Rollback due to error during conversion processing"))
       /\ rbIdx' = RollbackNext(rbIdx, ok, Len(createdSubscriptions))
  /\ UNCHANGED <<inputs, peers, unitCall, book, pc, handlers, error, opportunityRisk, result, idx, rbPass>>

\* after the loop: the note; this.handleError(...); return actions
CV_rollbackDone ==
  /\ pc = "cv_rollback"
  /\ rbIdx > Len(createdSubscriptions)
  /\ actions' = actions \o CV_manualRollbackNote(cancelledSubscriptions, appliedCredits)
                \o <<ProcessingErrorAction("conversion", opportunity, error)>>
  /\ pc' = "af_return"
  /\ UNCHANGED <<inputs, peers, unitCall, book, handlers, error, opportunityRisk, result, idx, rbIdx,
                 rbPass, calls>>

Next ==
  \/ BE_generateActions
  \/ BE_catch
  \/ BE_return
  \/ AF_generateActions
  \/ AF_handleError
  \/ NB_createAccount
  \/ NB_item
  \/ NB_return
  \/ NB_catch
  \/ NB_rollbackItems
  \/ NB_rollbackDone
  \/ IO_generateActions
  \/ IO_item
  \/ IO_return
  \/ IO_catch
  \/ IO_rollbackItems
  \/ IO_rollbackDone
  \/ RN_generateActions
  \/ RN_item
  \/ RN_return
  \/ RN_catch
  \/ RN_rollbackUpdated
  \/ RN_rollbackUpdatedDone
  \/ RN_rollbackCreated
  \/ RN_rollbackDone
  \/ CV_generateActions
  \/ CV_cancelSelfService
  \/ CV_applyCredit
  \/ CV_item
  \/ CV_return
  \/ CV_catch
  \/ CV_rollbackItems
  \/ CV_rollbackDone

Spec == Init /\ [][Next]_vars

\* the scheduler runs the invocation as long as it has a step to take, and
\* every awaited provider call settles (resolves or rejects)
\* Termination does not depend on the amounts, the payment terms, the clock,
\* the outstanding invoices or the credit: they are fixed here; all order
\* types, line items, existing states and structural defects remain.
FairInit ==
  /\ Init
  /\ opportunity.amount = 500
  /\ opportunity.payment_terms = <<"net_30">>
  /\ opportunity.outstanding_invoices = NoOutstanding
  /\ opportunity.credit_amount_due = 0
  /\ now = 0

FairSpec == FairInit /\ [][Next]_vars /\ WF_vars(Next)

(* ---------------- the dispatcher called on its own ---------------- *)
\* ActionFactory.generateActions is public: a caller that skips the
\* orchestrator hands it an insertion order whose dates nobody validated
DateInputs == {OkDate(0), OkDate(400), MissingDate, InvalidDate}
DirectClock == Clock \cup {799}

DirectOpportunities ==
  { [Opportunity("insertion_order", items, 500, <<"net_30">>, NoOutstanding, 0)
       EXCEPT !.contract_start_date = startDate, !.contract_end_date = endDate] :
      items \in SeqsUpTo(ItemKinds, 1, MaxPricedItems),
      startDate \in DateInputs, endDate \in DateInputs }

DirectEntry ==
  /\ opportunity \in DirectOpportunities
  /\ recurlyState = [present |-> TRUE, subscriptions |-> <<>>]
  /\ pc = "af_start"
  /\ handlers = <<"be_catch">>
  /\ error = ""
  /\ opportunityRisk = NoRisk
  /\ actions = <<>>
  /\ result = <<>>
  /\ createdAccount = FALSE
  /\ createdSubscriptions = <<>>
  /\ createdCharges = <<>>
  /\ createdInvoices = <<>>
  /\ updatedSubscriptions = <<>>
  /\ cancelledSubscriptions = <<>>
  /\ appliedCredits = <<>>
  /\ idx = 0
  /\ rbIdx = 0
  /\ rbPass = 0
  /\ calls = <<>>
  /\ NoUnitCall
  /\ peers = NoPeers
  /\ now \in DirectClock

DirectInit == Init \/ DirectEntry

DirectSpec == DirectInit /\ [][Next]_vars

(* ---------------- ProrationEngine called on its own ---------------- *)
\* line items a proration is asked for; classification "" is an absent one
ProrationItem(unit, qty, classification, affects, previous) ==
  [LineItem("AB", "Add-on Seats", qty, unit, "monthly", TRUE, "") EXCEPT
     !.item_classification = classification,
     !.affects_base_subscription = affects,
     !.previous_price = previous]

\* the item and the den of its prices: whole prices, and 0.50 and 19.99
ProrationItems ==
  { [lineItem |-> ProrationItem(1000, 1, "", FALSE, 0), den |-> 1],
    [lineItem |-> ProrationItem(50, 2, "subscription_consumption", FALSE, 0), den |-> 1],
    [lineItem |-> ProrationItem(1000, 1, "non_subscription_consumption", FALSE, 800), den |-> 1],
    [lineItem |-> ProrationItem(1000, 1, "", FALSE, 1200), den |-> 1],
    [lineItem |-> ProrationItem(1, 1, "one_time_service", FALSE, 0), den |-> 1],
    [lineItem |-> ProrationItem(1, 1, "", TRUE, 0), den |-> 1],
    [lineItem |-> ProrationItem(0, 1, "", FALSE, 0), den |-> 1],
    [lineItem |-> ProrationItem(50, 1, "", FALSE, 0), den |-> 100],
    [lineItem |-> ProrationItem(50, 1, "subscription_consumption", FALSE, 0), den |-> 100],
    [lineItem |-> ProrationItem(1999, 1, "", FALSE, 1499), den |-> 100] }

\* contract periods, in days from 2024-01-01: January, February and the second
\* quarter of the leap year 2024, February 2025, November 2024, a few days
\* inside a month, periods across a year end, and unusable dates
ProrationPeriods ==
  { [startDate |-> OkDate(0), endDate |-> OkDate(31)],
    [startDate |-> OkDate(31), endDate |-> OkDate(60)],
    [startDate |-> OkDate(91), endDate |-> OkDate(182)],
    [startDate |-> OkDate(397), endDate |-> OkDate(425)],
    [startDate |-> OkDate(305), endDate |-> OkDate(335)],
    [startDate |-> OkDate(45), endDate |-> OkDate(50)],
    [startDate |-> OkDate(360), endDate |-> OkDate(380)],
    [startDate |-> OkDate(366), endDate |-> OkDate(731)],
    [startDate |-> OkDate(50), endDate |-> OkDate(50)],
    [startDate |-> OkDate(60), endDate |-> OkDate(31)],
    [startDate |-> InvalidDate, endDate |-> OkDate(31)],
    [startDate |-> OkDate(0), endDate |-> MissingDate] }

BillingFrequencies == {"monthly", "quarterly", "annually", "weekly"}

\* the time of the call relative to the period: long before it, at its start,
\* a day and a half into it, half a day before its end, after its end
ProrationClock(period) ==
  IF period.startDate.kind # "ok" \/ period.endDate.kind # "ok" THEN {0}
  ELSE {0, 2 * period.startDate.day, 2 * period.startDate.day + 3,
        2 * period.endDate.day - 1, 2 * period.endDate.day + 10}

\* proration_details: absent, or present with each billing scenario flagged or
\* not and an upsell start two days into the period or none
ProrationDetailsFor(period) ==
  {NoProrationDetails} \cup
  { [present |-> TRUE, immediate_invoice |-> imm, upsell_start_date |-> upsell,
     subscription_update |-> upd] :
      imm \in BOOLEAN, upd \in BOOLEAN,
      upsell \in {OkDate(period.startDate.day + 2), MissingDate} }

ProrationInit ==
  /\ \E it \in ProrationItems, period \in ProrationPeriods, f \in BillingFrequencies :
       /\ now \in ProrationClock(period)
       /\ \E details \in ProrationDetailsFor(period) :
            args = [fn |-> "calculateProration", lineItem |-> it.lineItem, den |-> it.den,
                    startDate |-> period.startDate, endDate |-> period.endDate,
                    billingFrequency |-> f, prorationDetails |-> details]
  /\ opportunity = Opportunity("insertion_order", <<>>, 0, <<>>, NoOutstanding, 0)
  /\ recurlyState = NoState
  /\ pc = "pe_start"
  /\ handlers = <<>>
  /\ error = ""
  /\ opportunityRisk = NoRisk
  /\ actions = <<>>
  /\ result = <<>>
  /\ createdAccount = FALSE
  /\ createdSubscriptions = <<>>
  /\ createdCharges = <<>>
  /\ createdInvoices = <<>>
  /\ updatedSubscriptions = <<>>
  /\ cancelledSubscriptions = <<>>
  /\ appliedCredits = <<>>
  /\ idx = 0
  /\ rbIdx = 0
  /\ rbPass = 0
  /\ calls = <<>>
  /\ validation = NoValidation
  /\ baseProration = 0
  /\ returned = <<>>
  /\ peers = NoPeers

\* a returned value, with the call it answers and the time it was made
Return(value) == [fn |-> args.fn, args |-> args, at |-> now, value |-> value]

\* const validation = this.validateDates(startDate, endDate);
\* if (!validation.isValid) return { amountInCents: 0, ... }
PE_validateDates ==
  /\ pc = "pe_start"
  /\ LET v == validateDates(args.startDate, args.endDate, now) IN
     /\ validation' = v
     /\ IF ~v.isValid
        THEN /\ returned' = Append(returned, Return(
                  [amountInCents |-> 0, calculationMethod |-> <<"invalid_dates">>,
                   daysCalculated |-> 0, billingFrequency |-> args.billingFrequency,
                   notes |-> <<v.error>>]))
             /\ pc' = "pe_done"
        ELSE /\ pc' = "pe_base"
             /\ UNCHANGED returned
  /\ UNCHANGED <<inputs, peers, book, args, baseProration, handlers, error, opportunityRisk, actions,
                 result, idx, rbIdx, rbPass, calls>>

\* let baseProration = this.calculateBaseProration(monthlyAmount, effectiveStart, ...)
PE_calculateBaseProration ==
  /\ pc = "pe_base"
  /\ \E tz \in TimeZones :
       baseProration' =
         calculateBaseProration(args.lineItem.unit_price * args.lineItem.quantity, args.den,
                                validation.effectiveStart, validation.daysRemaining,
                                args.billingFrequency, tz)
  /\ pc' = "pe_rules"
  /\ UNCHANGED <<inputs, peers, book, args, validation, returned, handlers, error, opportunityRisk,
                 actions, result, idx, rbIdx, rbPass, calls>>

\* if (prorationDetails) baseProration = this.applyProrationBusinessRules(...)
PE_applyProrationBusinessRules ==
  /\ pc = "pe_rules"
  /\ baseProration' =
       IF args.prorationDetails.present
       THEN applyProrationBusinessRules(baseProration, args.lineItem, args.prorationDetails, now)
       ELSE baseProration
  /\ pc' = "pe_floor"
  /\ UNCHANGED <<inputs, peers, book, args, validation, returned, handlers, error, opportunityRisk,
                 actions, result, idx, rbIdx, rbPass, calls>>

\* baseProration = this.applyMinimumChargeRules(baseProration, lineItem)
PE_applyMinimumChargeRules ==
  /\ pc = "pe_floor"
  /\ baseProration' = applyMinimumChargeRules(baseProration, args.lineItem)
  /\ pc' = "pe_return"
  /\ UNCHANGED <<inputs, peers, book, args, validation, returned, handlers, error, opportunityRisk,
                 actions, result, idx, rbIdx, rbPass, calls>>

\* return { amountInCents: baseProration, ... }
PE_return ==
  /\ pc = "pe_return"
  /\ returned' = Append(returned, Return(
       [amountInCents |-> baseProration,
        calculationMethod |-> <<args.billingFrequency, "_based">>,
        daysCalculated |-> validation.daysRemaining,
        billingFrequency |-> args.billingFrequency,
        notes |-> generateProrationNotes(args.lineItem, args.billingFrequency)]))
  /\ pc' = "pe_done"
  /\ UNCHANGED <<inputs, peers, book, args, validation, baseProration, handlers, error,
                 opportunityRisk, actions, result, idx, rbIdx, rbPass, calls>>

ProrationNext ==
  \/ PE_validateDates
  \/ PE_calculateBaseProration
  \/ PE_applyProrationBusinessRules
  \/ PE_applyMinimumChargeRules
  \/ PE_return

ProrationSpec == ProrationInit /\ [][ProrationNext]_vars

(* ---------------- RiskCalculator called on its own ---------------- *)
MaxRiskItems == 12
MaxCalls == 3
MaxLevelCalls == 2

\* n line items, the first a one-time charge and the last one prorated on request
RiskItems(n, oneTime, proration) ==
  [i \in 1..n |->
     LineItem("A", "Pro Plan", 1, 1000,
              IF i = 1 /\ oneTime THEN "one_time" ELSE "monthly",
              i = n /\ proration, "")]

RiskItemLists ==
  { RiskItems(n, oneTime, proration) :
      n \in 0..MaxRiskItems, oneTime \in BOOLEAN, proration \in BOOLEAN }

\* opportunity amounts on both sides of every tier of calculateAmountRisk
RiskAmountTiers == {0, 1000, 1001, 10000, 10001, 50000, 50001, 100000, 100001}

PaymentTerms ==
  {<<>>, <<"due_on_receipt">>, <<"net_30">>, <<"net_60">>, <<"net_90">>, <<"net_120">>}

\* contract periods on both sides of every tier of calculateDurationRisk, an
\* end before the start, and dates that do not parse
RiskPeriods ==
  { [startDate |-> OkDate(10), endDate |-> OkDate(10 + days)] :
      days \in {-5, 0, 29, 30, 31, 90, 91, 365, 366} }
  \cup { [startDate |-> InvalidDate, endDate |-> OkDate(31)],
         [startDate |-> OkDate(0), endDate |-> MissingDate] }

RiskOpportunity(amount, items, period, terms) ==
  [Opportunity("new_business", items, amount, terms, NoOutstanding, 0) EXCEPT
     !.contract_start_date = period.startDate,
     !.contract_end_date = period.endDate]

TwoMonths == [startDate |-> OkDate(0), endDate |-> OkDate(60)]

\* every amount with every payment term; every list of line items; every period
RiskOpportunities ==
  { RiskOpportunity(amount, items, TwoMonths, terms) :
      amount \in RiskAmountTiers, terms \in PaymentTerms,
      items \in {RiskItems(0, FALSE, FALSE), RiskItems(3, TRUE, TRUE)} }
  \cup { RiskOpportunity(amount, items, TwoMonths, <<"net_30">>) :
           amount \in {500, 200000}, items \in RiskItemLists }
  \cup { RiskOpportunity(amount, items, period, terms) :
           amount \in {500, 200000}, period \in RiskPeriods,
           terms \in {<<>>, <<"net_90">>},
           items \in {RiskItems(0, FALSE, FALSE), RiskItems(6, TRUE, TRUE)} }

\* another opportunity the calculator is asked about in between
OtherOpportunity == RiskOpportunity(50001, RiskItems(3, FALSE, TRUE), TwoMonths, <<"net_60">>)

\* amounts num / den on both sides of the two thresholds of calculateRiskLevel
RiskAmounts ==
  { [num |-> n, den |-> 2] :
      n \in {0, 1, 1999, 2000, 2001, 2002, 6000, 9999, 10000, 10001, 10002, 200000} }

\* nothing but the calculator runs: the engine is idle
CalculatorIdle ==
  /\ recurlyState = NoState
  /\ pc = "rc"
  /\ handlers = <<>>
  /\ error = ""
  /\ opportunityRisk = NoRisk
  /\ actions = <<>>
  /\ result = <<>>
  /\ createdAccount = FALSE
  /\ createdSubscriptions = <<>>
  /\ createdCharges = <<>>
  /\ createdInvoices = <<>>
  /\ updatedSubscriptions = <<>>
  /\ cancelledSubscriptions = <<>>
  /\ appliedCredits = <<>>
  /\ idx = 0
  /\ rbIdx = 0
  /\ rbPass = 0
  /\ calls = <<>>
  /\ NoUnitCall
  /\ peers = NoPeers

RiskInit ==
  /\ opportunity \in RiskOpportunities
  /\ now \in Clock
  /\ CalculatorIdle

RiskLevelInit ==
  /\ opportunity = OtherOpportunity
  /\ now = 0
  /\ CalculatorIdle

\* time passes between two calls
Tick ==
  /\ \E t \in Clock : t > now /\ now' = t
  /\ UNCHANGED <<opportunity, recurlyState, pc, handlers, error, opportunityRisk, actions,
                 result, book, idx, rbIdx, rbPass, calls, unitCall, peers>>

RC_calculateOpportunityRisk_m ==
  /\ pc = "rc"
  /\ Len(returned) < MaxCalls
  /\ \E opp \in {opportunity, OtherOpportunity} :
       returned' = Append(returned,
                          [fn |-> "calculateOpportunityRisk", args |-> opp, at |-> now,
                           value |-> calculateOpportunityRisk(
                             [opp EXCEPT !.contract_start_date = OkDate(now \div 2)])])
  /\ UNCHANGED <<inputs, peers, book, args, validation, baseProration, pc, handlers, error,
                 opportunityRisk, actions, result, idx, rbIdx, rbPass, calls>>
\* riskCalculator.calculateOpportunityRisk(opportunity), on the opportunity
\* under assessment or on another one
RC_calculateOpportunityRisk ==
  /\ pc = "rc"
  /\ Len(returned) < MaxCalls
  /\ \E opp \in {opportunity, OtherOpportunity} :
       returned' = Append(returned,
                          [fn |-> "calculateOpportunityRisk", args |-> opp, at |-> now,
                           value |-> calculateOpportunityRisk(opp)])
  /\ UNCHANGED <<inputs, peers, book, args, validation, baseProration, pc, handlers, error,
                 opportunityRisk, actions, result, idx, rbIdx, rbPass, calls>>

\* riskCalculator.calculateRiskLevel(amount)
RC_calculateRiskLevel ==
  /\ pc = "rc"
  /\ Len(returned) < MaxLevelCalls
  /\ \E amount \in RiskAmounts :
       returned' = Append(returned,
                          [fn |-> "calculateRiskLevel", args |-> amount, at |-> now,
                           value |-> calculateRiskLevelOf(amount.num, amount.den)])
  /\ UNCHANGED <<inputs, peers, book, args, validation, baseProration, pc, handlers, error,
                 opportunityRisk, actions, result, idx, rbIdx, rbPass, calls>>

RiskNext == RC_calculateOpportunityRisk \/ Tick

RiskSpec == RiskInit /\ [][RiskNext]_vars

RiskLevelNext == RC_calculateRiskLevel \/ Tick

RiskLevelSpec == RiskLevelInit /\ [][RiskLevelNext]_vars

(* ---------------- OutputGenerator ---------------- *)
MaxSheetActions == 2

\* description.includes('ERROR'): a description is a sequence of text tokens,
\* and "ERROR:" is the one token of the vocabulary that contains the upper-case
\* text; "Error during" does not
TokensWithERROR == {"ERROR:"}
DescriptionIncludesERROR(description) ==
  \E i \in 1..Len(description) : description[i] \in TokensWithERROR

requiresManualReview_m(billingActions) ==
  \E i \in 1..Len(billingActions) :
    \/ billingActions[i].risk_level = "high"
    \/ DescriptionIncludesERROR(billingActions[i].description)
requiresManualReview(billingActions) ==
  \E i \in 1..Len(billingActions) :
    \/ billingActions[i].requires_review
    \/ billingActions[i].risk_level = "high"
    \/ DescriptionIncludesERROR(billingActions[i].description)

\* billingActions.reduce((sum, action) => sum + (action.amount_in_cents || 0), 0)
RECURSIVE TotalImpact(_)
TotalImpact(billingActions) ==
  IF billingActions = <<>> THEN 0
  ELSE (IF Head(billingActions).amount_in_cents = NoAmount THEN 0
        ELSE Head(billingActions).amount_in_cents)
       + TotalImpact(Tail(billingActions))

\* the review sheet without its two texts (summary, warnings);
\* estimated_total_impact is totalImpact / 100, kept as a fraction
generateReviewSheet(opp, billingActions, clock) ==
  [opportunity_id |-> opp.id,
   total_actions |-> Len(billingActions),
   high_risk_actions |->
     Cardinality({i \in 1..Len(billingActions) : billingActions[i].risk_level = "high"}),
   estimated_total_impact |-> [num |-> TotalImpact(billingActions), den |-> 100],
   billing_actions |-> billingActions,
   manual_review_required |-> requiresManualReview(billingActions),
   generated_at |-> clock]

\* actions a sheet is rendered from: every combination of the review flag, the
\* risk level and a description with "ERROR", with "Error" or with neither
SheetActions ==
  { [BillingAction EXCEPT
       !.type = IF description[1] = "Create account" THEN "create_account" ELSE "error",
       !.description = description,
       !.requires_review = review,
       !.risk_level = level,
       !.amount_in_cents = IF level = "medium" THEN 150000 ELSE NoAmount] :
      review \in BOOLEAN, level \in {"low", "medium", "high"},
      description \in { <<"Create account">>,
                        <<"ERROR:", "Renewal", "opportunity but no existing Recurly account found">>,
                        <<"Error during", "renewal", "processing">> } }

SheetInit ==
  /\ opportunity = OtherOpportunity
  /\ args \in { [fn |-> "generateReviewSheet", billingActions |-> acts] :
                  acts \in SeqsUpTo(SheetActions, 0, MaxSheetActions) }
  /\ now \in Clock
  /\ recurlyState = NoState
  /\ pc = "og_start"
  /\ handlers = <<>>
  /\ error = ""
  /\ opportunityRisk = NoRisk
  /\ actions = <<>>
  /\ result = <<>>
  /\ createdAccount = FALSE
  /\ createdSubscriptions = <<>>
  /\ createdCharges = <<>>
  /\ createdInvoices = <<>>
  /\ updatedSubscriptions = <<>>
  /\ cancelledSubscriptions = <<>>
  /\ appliedCredits = <<>>
  /\ idx = 0
  /\ rbIdx = 0
  /\ rbPass = 0
  /\ calls = <<>>
  /\ validation = NoValidation
  /\ baseProration = 0
  /\ returned = <<>>
  /\ peers = NoPeers

\* outputGenerator.generateReviewSheet(opportunity, billingActions)
OG_generateReviewSheet ==
  /\ pc = "og_start"
  /\ returned' = Append(returned,
                        Return(generateReviewSheet(opportunity, args.billingActions, now)))
  /\ pc' = "og_done"
  /\ UNCHANGED <<inputs, peers, book, args, validation, baseProration, handlers, error,
                 opportunityRisk, actions, result, idx, rbIdx, rbPass, calls>>

SheetNext == OG_generateReviewSheet

SheetSpec == SheetInit /\ [][SheetNext]_vars

(* ---------------- properties ---------------- *)
Returned == pc = "done"
Passed == validateOpportunity(opportunity) = ""
ForwardFailed == \E i \in 1..Len(calls) : ~calls[i].ok /\ ~calls[i].comp
CompensationFailed == \E i \in 1..Len(calls) : ~calls[i].ok /\ calls[i].comp

ErrorAction(a) == a.type = "error" /\ a.risk_level = "high" /\ a.requires_review
InGenerator == pc \notin {"be_start", "be_catch", "af_start", "af_catch", "af_return", "done", "crashed"}
NeedsState == opportunity.type \in {"renewal", "insertion_order", "conversion_order"}

\* C1: whatever the opportunity, the existing state and the provider failures,
\* generateActions never lets an exception reach its caller, and it terminates
\* by returning a list with at least one action.
C1_AlwaysReturnsActions ==
  /\ [](pc # "crashed" /\ (Returned => Len(result) >= 1))
  /\ <>Returned

\* a run in which a forward call and a compensation call failed has returned
C1_Witness == Returned /\ ForwardFailed /\ CompensationFailed /\ Len(result) >= 1

\* the structural defects as the claim lists them
StructuralDefect(opp) ==
  \/ opp.id = "" \/ opp.type = "" \/ opp.account_id = ""
  \/ opp.contract_start_date.kind = "missing" \/ opp.contract_end_date.kind = "missing"
  \/ opp.line_items = <<>>
  \/ \E i \in 1..Len(opp.line_items) :
       \/ opp.line_items[i].product_code = "" \/ opp.line_items[i].product_name = ""
       \/ opp.line_items[i].unit_price <= 0 \/ opp.line_items[i].quantity <= 0
  \/ opp.contract_start_date.kind = "invalid" \/ opp.contract_end_date.kind = "invalid"
  \/ ~(opp.contract_start_date.day < opp.contract_end_date.day)

\* C2: an opportunity with a structural defect makes generateActions return
\* exactly one action (error, high risk, review required); the dispatcher and
\* the generators are never entered and no provider call is made.
C2_DefectShortCircuits ==
  StructuralDefect(opportunity) =>
    /\ calls = <<>>
    /\ pc \in {"be_start", "be_catch", "done"}
    /\ Returned => Len(result) = 1 /\ ErrorAction(result[1])

\* an opportunity whose start date equals its end date has been rejected
C2_Witness ==
  /\ Returned
  /\ opportunity.contract_start_date.kind = "ok"
  /\ opportunity.contract_start_date = opportunity.contract_end_date
  /\ Len(result) = 1
  /\ ErrorAction(result[1])

\* C3: for a validated opportunity, a high opportunity risk puts exactly one
\* more action in front of the dispatcher's list (error, high, review required,
\* carrying score and factors); a low or medium risk returns the list unchanged.
C3_RiskWarningPrepended ==
  (Returned /\ Passed) =>
    LET risk == calculateOpportunityRisk(opportunity) IN
    IF risk.riskLevel = "high"
    THEN /\ Len(result) = Len(actions) + 1
         /\ ErrorAction(result[1])
         /\ result[1].details.risk_score = risk.score
         /\ result[1].details.risk_factors = risk.factors
         /\ Tail(result) = actions
    ELSE result = actions

\* a high-risk opportunity with several generator actions has returned
C3_Witness ==
  /\ Returned /\ Passed
  /\ calculateOpportunityRisk(opportunity).riskLevel = "high"
  /\ Len(actions) >= 2
  /\ Len(result) = Len(actions) + 1

MissingAccountError(a) ==
  /\ a.type = "create_account"
  /\ HasToken(a.description, "ERROR:")
  /\ a.risk_level = "high"
  /\ a.requires_review

\* C4 as stated: a valid renewal, insertion or conversion order with absent
\* state yields exactly one action, the create_account ERROR action.
C4_Original ==
  (Returned /\ Passed /\ NeedsState /\ ~recurlyState.present) =>
    Len(result) = 1 /\ MissingAccountError(result[1])

\* C4 amended: the generator's single create_account ERROR action is the whole
\* result when the opportunity risk is low or medium, and it is preceded by the
\* high-risk warning (2 actions) when the opportunity risk is high.
C4_MissingAccount ==
  (Returned /\ Passed /\ NeedsState /\ ~recurlyState.present) =>
    /\ MissingAccountError(result[Len(result)])
    /\ IF calculateOpportunityRisk(opportunity).riskLevel = "high"
       THEN Len(result) = 2 /\ ErrorAction(result[1])
            /\ result[1].description = <<"High-risk opportunity detected">>
       ELSE Len(result) = 1

\* a low-risk renewal without existing state has returned its single action
C4_Witness ==
  /\ Returned /\ Passed
  /\ opportunity.type = "renewal"
  /\ ~recurlyState.present
  /\ calculateOpportunityRisk(opportunity).riskLevel # "high"
  /\ Len(result) = 1

\* C5: with absent state the renewal, insertion and conversion generators stop
\* after the single ERROR action and never call the provider.
C5_NoProviderCallWithoutState ==
  (Passed /\ NeedsState /\ ~recurlyState.present) =>
    /\ calls = <<>>
    /\ pc \in {"be_start", "af_start", "rn_start", "io_start", "cv_start", "af_return", "done"}
    /\ pc \in {"af_return", "done"} => Len(actions) = 1 /\ MissingAccountError(actions[1])

\* a conversion with several line items and no state has returned
C5_Witness ==
  /\ Returned /\ Passed
  /\ opportunity.type = "conversion_order"
  /\ ~recurlyState.present
  /\ Len(opportunity.line_items) >= 2
  /\ calls = <<>>


(* ---------------- compensation ---------------- *)
CreateOk(c) == c.op = "createSubscription" /\ c.ok /\ ~c.comp
CompCancel(c) == c.op = "cancelSubscription" /\ c.comp

\* C6: when a provider call has failed mid-sequence, by the time the result is
\* returned every subscription created earlier in the invocation has had a
\* compensating cancelSubscription attempted, whether or not an earlier
\* compensating cancellation failed.
C6_EveryCreatedSubscriptionCancelled ==
  (Returned /\ ForwardFailed) =>
    \A i \in 1..Len(calls) :
      CreateOk(calls[i]) =>
        \E j \in (i + 1)..Len(calls) : CompCancel(calls[j]) /\ calls[j].id = calls[i].id

\* two subscriptions were created, the compensating cancellation of one failed,
\* and the cancellation of the other one was attempted afterwards
C6_Witness ==
  /\ Returned
  /\ ForwardFailed
  /\ \E i, j \in 1..Len(calls) :
       /\ i < j
       /\ CompCancel(calls[i]) /\ ~calls[i].ok
       /\ CompCancel(calls[j]) /\ calls[j].id # calls[i].id
       /\ \E k, l \in 1..Len(calls) :
            /\ CreateOk(calls[k]) /\ calls[k].id = calls[i].id
            /\ CreateOk(calls[l]) /\ calls[l].id = calls[j].id

\* a failed compensating cancelSubscription is recorded as an action of type
\* error with risk_level high
FailedCancellationRecordedAsError ==
  \A j \in 1..Len(calls) :
    (CompCancel(calls[j]) /\ ~calls[j].ok) =>
      \E a \in 1..Len(actions) :
        /\ actions[a].type = "error"
        /\ actions[a].risk_level = "high"
        /\ actions[a].details.subscription_id = calls[j].id

\* after a failed compensating cancelSubscription no cancellation of the same
\* subscription is issued again
FailedCancellationNotAttemptedAgain ==
  \A j, k \in 1..Len(calls) :
    (j < k /\ CompCancel(calls[j]) /\ ~calls[j].ok) =>
      ~(calls[k].op = "cancelSubscription" /\ calls[k].id = calls[j].id)

\* C7: a failed compensating cancelSubscription is recorded as an action of
\* type error with risk_level high, and the same subscription's cancellation
\* is never attempted again in the invocation.
C7_FailedCancellationNotRetried ==
  FailedCancellationRecordedAsError /\ FailedCancellationNotAttemptedAgain

\* the descriptions of the actions that say what cannot be rolled back
ManualFollowUpNotes ==
  { <<"One-time charges cannot be rolled back">>,
    <<"Charges and invoices cannot be automatically rolled back">>,
    <<"Cancelled subscriptions and applied credits require manual rollback">> }

HasManualFollowUpNote(acts) ==
  \E a \in 1..Len(acts) :
    acts[a].type = "error" /\ acts[a].description \in ManualFollowUpNotes

\* the output records a step that compensation cannot undo: a one-time or
\* proration charge, an outstanding-invoice action, a credit, or the
\* cancellation of a pre-existing subscription
RecordsIrreversibleStep(acts) ==
  \E a \in 1..Len(acts) :
    \/ acts[a].type \in {"charge_one_time", "prorate_charges", "create_invoice", "apply_credit"}
    \/ /\ acts[a].type = "cancel_subscription"
       /\ acts[a].description[1] = "Cancel self-service subscription:"

\* C8 as stated: whenever a generator fails mid-sequence, its output contains
\* an error-typed action saying that charges, credits and cancellations cannot
\* be automatically reversed, for every order type and whatever was created.
C8_Original ==
  (Returned /\ ForwardFailed) => HasManualFollowUpNote(result)

\* C8 (amended): when a generator fails mid-sequence, its output contains the
\* error-typed manual-follow-up action exactly when a one-time or proration
\* charge, an outstanding invoice, a credit or a cancellation of a pre-existing
\* subscription was recorded before the failure; with none recorded (always
\* the case for a renewal) no such action is emitted.
C8_ManualFollowUpWhenIrreversible ==
  (Returned /\ ForwardFailed) =>
    /\ HasManualFollowUpNote(result) <=> RecordsIrreversibleStep(result)
    /\ opportunity.type = "renewal" => ~HasManualFollowUpNote(result)

\* an insertion order whose only irreversible step is the outstanding invoice
\* fails on a later subscription and reports the manual follow-up
C8_Witness ==
  /\ Returned
  /\ ForwardFailed
  /\ opportunity.type = "insertion_order"
  /\ Len(createdInvoices) > 0
  /\ Len(createdCharges) = 0
  /\ HasManualFollowUpNote(result)

\* C9: once a forward provider call has failed, every later provider call of
\* the invocation is a compensation call: no later line item is processed, no
\* further pre-existing subscription is cancelled, the failed call is not
\* issued again.
C9_NoForwardCallAfterFailure ==
  \A i, j \in 1..Len(calls) :
    (i < j /\ ~calls[i].ok /\ ~calls[i].comp) => calls[j].comp

\* a forward call failed with line items still to process, and compensation
\* calls followed it
C9_Witness ==
  /\ Returned
  /\ idx < Len(opportunity.line_items)
  /\ \E i \in 1..Len(calls) :
       /\ ~calls[i].ok /\ ~calls[i].comp
       /\ i < Len(calls)

(* ---------------- ordering ---------------- *)
\* C10: in a run without provider failure the actions for line items come in
\* the order of their line items, and every preamble action (risk warning,
\* account creation, outstanding invoices, cancellations, credit) comes before
\* every line-item action.
C10_OrderingGuarantee ==
  (Returned /\ Passed /\ \A c \in 1..Len(calls) : calls[c].ok) =>
    \A i, j \in 1..Len(result) :
      i < j =>
        /\ result[j].line_item = 0 => result[i].line_item = 0
        /\ (result[i].line_item > 0 /\ result[j].line_item > 0)
             => result[i].line_item < result[j].line_item

\* a high-risk conversion with a cancellation, a credit and two line items
C10_Witness ==
  /\ Returned
  /\ \A c \in 1..Len(calls) : calls[c].ok
  /\ opportunity.type = "conversion_order"
  /\ opportunityRisk.riskLevel = "high"
  /\ Len(cancelledSubscriptions) >= 1
  /\ Len(appliedCredits) >= 1
  /\ Len(result) >= 5
  /\ result[Len(result)].line_item = 2

(* ---------------- ActionFactory: unsupported order type ---------------- *)
\* C11: for an opportunity whose type is none of the four order types,
\* ActionFactory.generateActions returns exactly one action (error, high risk,
\* review required, details with the error text and the opportunity id, notes
\* asking for manual intervention); no generator runs, no provider call is made.
C11_UnsupportedTypeSingleError ==
  (Passed /\ opportunity.type \notin OrderTypes) =>
    /\ calls = <<>>
    /\ pc \in {"be_start", "af_start", "af_catch", "af_return", "done"}
    /\ pc \in {"af_return", "done"} =>
         /\ Len(actions) = 1
         /\ ErrorAction(actions[1])
         /\ actions[1].details.error = "Unsupported opportunity type"
         /\ actions[1].details.opportunity_id = opportunity.id
         /\ HasToken(actions[1].notes, "Manual intervention required")

\* the dispatcher has returned its single error action for an "upgrade"
C11_Witness ==
  /\ pc = "af_return"
  /\ opportunity.type = "upgrade"
  /\ Len(opportunity.line_items) >= 2
  /\ Len(actions) = 1
  /\ actions[1].details.error = "Unsupported opportunity type"

(* ---------------- New Business ---------------- *)
NoCallFailed == \A c \in 1..Len(calls) : calls[c].ok
GeneratorReturned == pc \in {"af_return", "done"}

\* C12: a new_business opportunity with n line items and no provider failure
\* gives n+1 generator actions whatever the existing state is: create_account
\* (low, no review), then per line item, in order, charge_one_time for a
\* one_time item and create_subscription (low, no review) for any other.
C12_NewBusinessActions ==
  (GeneratorReturned /\ Passed /\ opportunity.type = "new_business" /\ NoCallFailed) =>
    LET n == Len(opportunity.line_items) IN
    /\ Len(actions) = n + 1
    /\ actions[1].type = "create_account"
    /\ actions[1].risk_level = "low"
    /\ ~actions[1].requires_review
    /\ \A i \in 1..n :
         IF opportunity.line_items[i].billing_period = "one_time"
         THEN actions[i + 1].type = "charge_one_time"
         ELSE /\ actions[i + 1].type = "create_subscription"
              /\ actions[i + 1].risk_level = "low"
              /\ ~actions[i + 1].requires_review

\* three line items of both kinds, with a subscription in the existing state
C12_Witness ==
  /\ GeneratorReturned /\ Passed /\ NoCallFailed
  /\ opportunity.type = "new_business"
  /\ recurlyState.present /\ Len(recurlyState.subscriptions) = 1
  /\ Len(opportunity.line_items) = 3
  /\ Len(actions) = 4
  /\ \E i, j \in 2..4 : actions[i].type = "charge_one_time"
                        /\ actions[j].type = "create_subscription"

SimpleNewBusiness ==
  /\ opportunity.type = "new_business"
  /\ Len(opportunity.line_items) = 2
  /\ opportunity.line_items[1].billing_period = "monthly"
  /\ opportunity.line_items[1].total_price = 1000
  /\ opportunity.line_items[2].billing_period = "one_time"
  /\ opportunity.line_items[2].total_price = 5000

CodesMatch(plan, product) ==
  plan = product \/ Includes(plan, product) \/ Includes(product, plan)

\* the absolute difference, in minor units, between the item's unit price and
\* the subscription's current unit amount
PriceDeltaCents(item, sub) ==
  LET d == item.unit_price * 100 - sub.unit_amount_in_cents IN IF d < 0 THEN 0 - d ELSE d

\* the matched subscription of an update_subscription action
MatchedSubscription(a) == recurlyState.subscriptions[a.details.subscription_id]

RenewalReturned ==
  /\ GeneratorReturned /\ Passed /\ NoCallFailed
  /\ opportunity.type = "renewal" /\ recurlyState.present

\* C15: in a renewal with existing state and no provider failure, each line
\* item gets exactly one action: update_subscription for the first existing
\* subscription (state order) whose plan code equals, contains or is contained
\* in the product code, with the risk tier of the absolute price delta and the
\* price-change reason as note when there is one; otherwise create_subscription
\* with review required, medium risk and note "New product added during renewal".
C15_RenewalPerItem ==
  RenewalReturned =>
    /\ Len(actions) = Len(opportunity.line_items)
    /\ \A i \in 1..Len(actions) :
         LET item == opportunity.line_items[i]
             subs == recurlyState.subscriptions
             hits == {k \in 1..Len(subs) : CodesMatch(subs[k].plan_code, item.product_code)}
             a == actions[i]
         IN /\ a.line_item = i
            /\ IF hits # {}
               THEN LET k == CHOOSE k \in hits : \A j \in hits : k <= j
                        delta == PriceDeltaCents(item, subs[k]) IN
                    /\ a.type = "update_subscription"
                    /\ a.details.subscription_id = subs[k].uuid
                    /\ a.risk_level = IF delta <= 100000 THEN "low"
                                      ELSE IF delta <= 500000 THEN "medium" ELSE "high"
                    /\ item.price_change_reason # "" => HasToken(a.notes, item.price_change_reason)
               ELSE /\ a.type = "create_subscription"
                    /\ a.requires_review
                    /\ a.risk_level = "medium"
                    /\ HasToken(a.notes, "New product added during renewal")

\* an item contained in the plan codes of two subscriptions was matched with
\* the first one, another item had no match, and a reason was carried over
C15_Witness ==
  /\ RenewalReturned
  /\ Len(recurlyState.subscriptions) = 2
  /\ recurlyState.subscriptions[1].plan_code = "B"
  /\ recurlyState.subscriptions[2].plan_code = "A"
  /\ \E i, j \in 1..Len(actions) :
       /\ opportunity.line_items[i].product_code = "AB"
       /\ actions[i].type = "update_subscription"
       /\ actions[i].details.subscription_id = 1
       /\ actions[j].type = "update_subscription"
       /\ actions[j].notes = <<"Annual price increase">>

\* C16 as stated: review is required iff the absolute price delta exceeds $1.00
C16_Original ==
  \A a \in 1..Len(actions) :
    (opportunity.type = "renewal" /\ actions[a].type = "update_subscription"
       /\ actions[a].line_item > 0) =>
      (actions[a].requires_review <=>
         PriceDeltaCents(opportunity.line_items[actions[a].line_item],
                         MatchedSubscription(actions[a])) > 100)

\* C16 (amended): for a renewal update_subscription action, review is required
\* iff the absolute difference between the item's unit price and the matched
\* subscription's current unit amount exceeds $100.00.
C16_ReviewAboveHundredDollars ==
  \A a \in 1..Len(actions) :
    (opportunity.type = "renewal" /\ actions[a].type = "update_subscription"
       /\ actions[a].line_item > 0) =>
      (actions[a].requires_review <=>
         PriceDeltaCents(opportunity.line_items[actions[a].line_item],
                         MatchedSubscription(actions[a])) > 10000)

\* updates with a delta of exactly $100 (no review) and of $850 (review)
C16_Witness ==
  /\ opportunity.type = "renewal"
  /\ \E a, b \in 1..Len(actions) :
       /\ actions[a].type = "update_subscription" /\ actions[a].line_item > 0
       /\ PriceDeltaCents(opportunity.line_items[actions[a].line_item],
                          MatchedSubscription(actions[a])) = 10000
       /\ ~actions[a].requires_review
       /\ actions[b].type = "update_subscription" /\ actions[b].line_item > 0
       /\ PriceDeltaCents(opportunity.line_items[actions[b].line_item],
                          MatchedSubscription(actions[b])) = 85000
       /\ actions[b].requires_review

(* ---------------- Insertion Order ---------------- *)
InsertionReturned ==
  /\ GeneratorReturned /\ Passed
  /\ opportunity.type = "insertion_order" /\ recurlyState.present

\* C17: for an insertion order with existing state whose outstanding-invoice
\* summary says has_outstanding, the generator's first action is create_invoice
\* (amount total_outstanding x 100, medium risk, review required) and every
\* line-item action comes after it; with has_outstanding false or no summary
\* there is no create_invoice action at all.
C17_OutstandingInvoiceFirst ==
  InsertionReturned =>
    LET summary == opportunity.outstanding_invoices IN
    IF summary.present /\ summary.has_outstanding
    THEN /\ Len(actions) >= 1
         /\ actions[1].type = "create_invoice"
         /\ actions[1].amount_in_cents = summary.total_outstanding * 100
         /\ actions[1].risk_level = "medium"
         /\ actions[1].requires_review
         /\ actions[1].line_item = 0
         /\ \A a \in 2..Len(actions) : actions[a].type # "create_invoice"
    ELSE \A a \in 1..Len(actions) : actions[a].type # "create_invoice"

\* $8,000 outstanding: create_invoice of 800000 comes first, line-item actions follow
C17_Witness ==
  /\ InsertionReturned /\ NoCallFailed
  /\ opportunity.outstanding_invoices.has_outstanding
  /\ Len(actions) >= 3
  /\ actions[1].type = "create_invoice"
  /\ actions[1].amount_in_cents = 800000
  /\ actions[2].line_item = 1

\* C18: in an insertion order with existing state each line item gets exactly
\* one action: charge_one_time for a one_time item, even with proration_needed
\* set; else prorate_charges (review required, medium risk whatever the
\* amount, the classification among the notes) for a proration_needed item;
\* else create_subscription (low risk, no review).
C18_InsertionPerItem ==
  (InsertionReturned /\ NoCallFailed) =>
    LET summary == opportunity.outstanding_invoices
        pre == IF summary.present /\ summary.has_outstanding THEN 1 ELSE 0
        n == Len(opportunity.line_items)
    IN /\ Len(actions) = pre + n
       /\ \A i \in 1..n :
            LET item == opportunity.line_items[i]
                a == actions[pre + i]
            IN /\ a.line_item = i
               /\ IF item.billing_period = "one_time"
                  THEN a.type = "charge_one_time"
                  ELSE IF item.proration_needed
                  THEN /\ a.type = "prorate_charges"
                       /\ a.requires_review
                       /\ a.risk_level = "medium"
                       /\ HasToken(a.notes, item.item_classification)
                  ELSE /\ a.type = "create_subscription"
                       /\ a.risk_level = "low"
                       /\ ~a.requires_review

\* a one_time item with proration_needed set was charged, a proration item
\* was prorated
C18_Witness ==
  /\ InsertionReturned /\ NoCallFailed
  /\ \E i, j \in 1..Len(opportunity.line_items) :
       /\ opportunity.line_items[i].billing_period = "one_time"
       /\ opportunity.line_items[i].proration_needed
       /\ opportunity.line_items[j].billing_period # "one_time"
       /\ opportunity.line_items[j].proration_needed
       /\ \E a, b \in 1..Len(actions) :
            /\ actions[a].line_item = i /\ actions[a].type = "charge_one_time"
            /\ actions[b].line_item = j /\ actions[b].type = "prorate_charges"

(* ---------------- Conversion ---------------- *)
ActiveSubscriptions == SelectSeq(recurlyState.subscriptions, LAMBDA sub : sub.state = "active")

\* C19: a conversion with existing state and no provider failure gives, in
\* this order, one cancel_subscription (medium risk) per active existing
\* subscription in state order and none for the others; one apply_credit
\* (medium risk, review required, credit x 100) iff a credit is due; one
\* create_subscription (low risk) per line item in input order, each created
\* with collection method manual and net terms of 30 days.
C19_ConversionSequence ==
  (GeneratorReturned /\ Passed /\ NoCallFailed
     /\ opportunity.type = "conversion_order" /\ recurlyState.present) =>
    LET active == ActiveSubscriptions
        c == Len(active)
        k == IF opportunity.credit_amount_due > 0 THEN 1 ELSE 0
        n == Len(opportunity.line_items)
    IN /\ Len(actions) = c + k + n
       /\ \A i \in 1..c :
            /\ actions[i].type = "cancel_subscription"
            /\ actions[i].risk_level = "medium"
            /\ actions[i].details.subscription_id = active[i].uuid
       /\ k = 1 =>
            /\ actions[c + 1].type = "apply_credit"
            /\ actions[c + 1].risk_level = "medium"
            /\ actions[c + 1].requires_review
            /\ actions[c + 1].amount_in_cents = opportunity.credit_amount_due * 100
       /\ \A i \in 1..n :
            /\ actions[c + k + i].type = "create_subscription"
            /\ actions[c + k + i].risk_level = "low"
            /\ actions[c + k + i].line_item = i
       /\ Len(calls) = c + n
       /\ \A i \in 1..n :
            /\ calls[c + i].op = "createSubscription"
            /\ calls[c + i].data.plan_code = opportunity.line_items[i].product_code
            /\ calls[c + i].data.collection_method = "manual"
            /\ calls[c + i].data.net_terms = 30

\* a canceled and an active subscription, a credit of $133 and two line items
C19_Witness ==
  /\ GeneratorReturned /\ Passed /\ NoCallFailed
  /\ opportunity.type = "conversion_order" /\ recurlyState.present
  /\ Len(recurlyState.subscriptions) = 2
  /\ recurlyState.subscriptions[1].state = "canceled"
  /\ recurlyState.subscriptions[2].state = "active"
  /\ Len(opportunity.line_items) = 2
  /\ Len(actions) = 4
  /\ actions[2].type = "apply_credit" /\ actions[2].amount_in_cents = 13300

(* ---------------- Proration: dates without a remaining period ---------------- *)
ProrationErrors ==
  { "Invalid dates provided for proration calculation",
    "Start date must be before end date for proration",
    "No days remaining for proration" }

\* the contract dates are unparsable, or start >= end, or less than one full
\* day lies between the effective start (the later of start and now) and the end
NothingToProrate ==
  LET startDate == opportunity.contract_start_date
      endDate == opportunity.contract_end_date
  IN \/ startDate.kind # "ok" \/ endDate.kind # "ok"
     \/ startDate.day >= endDate.day
     \/ 2 * endDate.day - (IF 2 * startDate.day < now THEN now ELSE 2 * startDate.day) < 2

\* what the engine returns for a line item of the opportunity
ProrationOf(item, tz) ==
  calculateProration(item, opportunity.contract_start_date, opportunity.contract_end_date,
                     opportunity.billing_frequency, opportunity.proration_details, now, tz)

\* C20: given unparsable dates, start >= end or no remaining day, the proration
\* engine returns amount 0, 0 days calculated and an explanatory note, nothing
\* is thrown, and the insertion-order generator still emits a prorate_charges
\* action of amount 0 for the item and goes on with the following line items.
C20_NoRemainingPeriod ==
  (opportunity.type = "insertion_order" /\ recurlyState.present /\ NothingToProrate) =>
    /\ \A i \in 1..Len(opportunity.line_items), tz \in TimeZones :
         LET r == ProrationOf(opportunity.line_items[i], tz) IN
         /\ r.amountInCents = 0
         /\ r.daysCalculated = 0
         /\ \E e \in ProrationErrors : r.notes = <<e>>
    /\ \A a \in 1..Len(actions) :
         actions[a].type = "prorate_charges" =>
           /\ actions[a].amount_in_cents = 0
           /\ \E e \in ProrationErrors : HasToken(actions[a].notes, e)
    /\ pc # "crashed"
    /\ (GeneratorReturned /\ error = "") =>
         LET summary == opportunity.outstanding_invoices
             pre == IF summary.present /\ summary.has_outstanding THEN 1 ELSE 0
             n == Len(opportunity.line_items)
         IN /\ Len(actions) = pre + n
            /\ \A i \in 1..n :
                 LET item == opportunity.line_items[i] IN
                 /\ actions[pre + i].line_item = i
                 /\ (item.billing_period # "one_time" /\ item.proration_needed)
                      => /\ actions[pre + i].type = "prorate_charges"
                         /\ actions[pre + i].amount_in_cents = 0

\* unparsable dates: the proration item got its action of amount 0 and the
\* item after it was processed
C20_Witness ==
  /\ opportunity.type = "insertion_order"
  /\ opportunity.contract_start_date.kind = "invalid"
  /\ GeneratorReturned /\ NoCallFailed
  /\ Len(actions) = 2
  /\ actions[1].type = "prorate_charges" /\ actions[1].amount_in_cents = 0
  /\ actions[2].line_item = 2 /\ actions[2].type = "create_subscription"

(* ---------------- the proration formula ---------------- *)
ProrationCall == args.fn = "calculateProration"

\* effective start = max(contract start, now), as an instant in half days
EffectiveStart ==
  IF 2 * args.startDate.day < now THEN now ELSE 2 * args.startDate.day

\* whole days from the effective start to the contract end
DaysRemaining == (2 * args.endDate.day - EffectiveStart) \div 2

\* the calendar date of the effective start
EffectiveYear == YearFrom(EffectiveStart \div 2, 2024).year
EffectiveMonth ==
  LET y == YearFrom(EffectiveStart \div 2, 2024) IN MonthFrom(y.dayOfYear, y.year, 0) + 1

\* days of the calendar month (1..12) and of the calendar quarter (1..4)
MonthLength(year, month) ==
  <<31, IF IsLeapYear(year) THEN 29 ELSE 28, 31, 30, 31, 30, 31, 31, 30, 31, 30, 31>>[month]
QuarterLength(year, quarter) ==
  <<IF IsLeapYear(year) THEN 91 ELSE 90, 91, 92, 92>>[quarter]

\* (k, D) of the billing frequency at the effective start
PeriodsPerAnchor ==
  IF args.billingFrequency = "quarterly" THEN 3
  ELSE IF args.billingFrequency = "annually" THEN 12 ELSE 1
AnchorLength ==
  IF args.billingFrequency = "quarterly"
  THEN QuarterLength(EffectiveYear, ((EffectiveMonth - 1) \div 3) + 1)
  ELSE IF args.billingFrequency = "annually"
  THEN (IF IsLeapYear(EffectiveYear) THEN 366 ELSE 365)
  ELSE MonthLength(EffectiveYear, EffectiveMonth)

\* round(100 x M x k x d / D), M = unit_price x quantity
ExpectedBaseProration ==
  RoundDiv(100 * args.lineItem.unit_price * args.lineItem.quantity * PeriodsPerAnchor
             * DaysRemaining,
           AnchorLength * args.den)

\* C21: with no business-rule hints and d > 0 days remaining from the effective
\* start max(contract start, now), the base proration in minor units is
\* round(100 x M x k x d / D), with (k, D) = (1, days of the calendar month of
\* the effective start) for monthly, (3, days of its calendar quarter) for
\* quarterly, (12, 366 or 365) for annually, and the monthly pair for any
\* other frequency.
C21_BaseProrationFormula ==
  (ProrationCall /\ ~args.prorationDetails.present /\ pc = "pe_rules") =>
    /\ DaysRemaining > 0
    /\ validation.effectiveStart = EffectiveStart
    /\ validation.daysRemaining = DaysRemaining
    /\ baseProration = ExpectedBaseProration

(* ---------------- the minimum-charge floor ---------------- *)
SubscriptionAffecting(lineItem) ==
  \/ lineItem.item_classification = "subscription_consumption"
  \/ lineItem.affects_base_subscription

\* the amounts calculateProration has returned
ReturnedAmounts ==
  { returned[i].value.amountInCents :
      i \in {j \in 1..Len(returned) : returned[j].fn = "calculateProration"} }

\* C22: for a line item with unit_price >= 0 and quantity > 0 the amount that
\* calculateProration returns is never negative and never strictly between 0
\* and 100 minor units: a computed amount in that open interval becomes
\* exactly 100 for a subscription-affecting item (subscription_consumption or
\* affects_base_subscription) and exactly 0 otherwise, amounts of 0 or at
\* least 100 are kept, and the floored amount is the one returned.
C22_MinimumChargeFloor ==
  /\ [](\A a \in ReturnedAmounts : a = 0 \/ a >= 100)
  /\ [][(ProrationCall /\ pc = "pe_floor") =>
          /\ (0 < baseProration /\ baseProration < 100) =>
               baseProration' = IF SubscriptionAffecting(args.lineItem) THEN 100 ELSE 0
          /\ (baseProration = 0 \/ baseProration >= 100) => baseProration' = baseProration]_vars
  /\ [][(ProrationCall /\ pc = "pe_return") =>
          returned'[Len(returned')].value.amountInCents = baseProration]_vars

\* a price of 0.50 over the whole of January computes to 50 minor units; the
\* item is subscription_consumption and 100 is returned
C22_Witness ==
  /\ ProrationCall /\ pc = "pe_done"
  /\ args.lineItem.unit_price = 50 /\ args.den = 100 /\ args.lineItem.quantity = 1
  /\ args.lineItem.item_classification = "subscription_consumption"
  /\ args.startDate = OkDate(0) /\ args.endDate = OkDate(31) /\ now = 0
  /\ args.billingFrequency = "monthly"
  /\ ~args.prorationDetails.present
  /\ Len(returned) = 1
  /\ returned[1].value.amountInCents = 100

(* ---------------- the business-rule adjustment ---------------- *)
\* the activation date (upsell_start_date) is given and lies after now
ActivationInFuture ==
  /\ args.prorationDetails.upsell_start_date.kind = "ok"
  /\ 2 * args.prorationDetails.upsell_start_date.day > now

\* ... and lies at least one whole day (24 hours) after now
ActivationFullDayAhead ==
  /\ ActivationInFuture
  /\ 2 * args.prorationDetails.upsell_start_date.day - now >= 2

PreviousPriceLower ==
  /\ args.lineItem.previous_price > 0
  /\ args.lineItem.previous_price < args.lineItem.unit_price

\* the amount after the adjustment, given whether the delayed-start reduction
\* applies: 10% off, then the rescaling by (new - previous) / new
AdjustedAmount(base, delayedStart) ==
  LET hints == args.prorationDetails
      reduced == IF hints.present /\ hints.immediate_invoice /\ delayedStart
                 THEN RoundDiv(9 * base, 10) ELSE base
  IN IF hints.present /\ hints.subscription_update /\ PreviousPriceLower
     THEN RoundDiv(reduced * (args.lineItem.unit_price - args.lineItem.previous_price),
                   args.lineItem.unit_price)
     ELSE reduced

\* C23 as stated: the reduction by 10% applies as soon as the activation date
\* is strictly in the future.
C23_Original ==
  [][(ProrationCall /\ pc = "pe_rules") =>
       baseProration' = AdjustedAmount(baseProration, ActivationInFuture)]_vars

\* C23 amended: the adjustment is applied only when hints are supplied; with
\* the immediate-invoice scenario flagged and the activation date at least one
\* whole day after now the base amount is reduced by 10%; with the
\* subscription-update scenario flagged and a previous price lower than the
\* new unit price the amount is rescaled by (new - previous) / new; in every
\* other case (no hints, scenario not flagged, activation date missing, past
\* or less than a day ahead, previous price missing or not lower) the base
\* amount is unchanged.
C23_BusinessRules ==
  [][(ProrationCall /\ pc = "pe_rules") =>
       /\ baseProration' = AdjustedAmount(baseProration, ActivationFullDayAhead)
       /\ ~args.prorationDetails.present => baseProration' = baseProration
       /\ ( /\ ~(args.prorationDetails.immediate_invoice /\ ActivationFullDayAhead)
            /\ ~(args.prorationDetails.subscription_update /\ PreviousPriceLower) )
            => baseProration' = baseProration]_vars

\* 1000 a month over the whole of January, asked for before the period with
\* the immediate-invoice scenario flagged and an activation two days into the
\* period: 100000 minor units reduced to 90000
C23_Witness ==
  /\ ProrationCall /\ pc = "pe_floor"
  /\ args.lineItem.unit_price = 1000 /\ args.den = 1 /\ args.lineItem.previous_price = 0
  /\ args.startDate = OkDate(0) /\ args.endDate = OkDate(31) /\ now = 0
  /\ args.billingFrequency = "monthly"
  /\ args.prorationDetails.present /\ args.prorationDetails.immediate_invoice
  /\ ActivationFullDayAhead
  /\ baseProration = 90000

(* ---------------- the monthly round trip ---------------- *)
\* the calendar month (1..12) of a day
MonthOfDay(day) ==
  LET y == YearFrom(day, 2024) IN MonthFrom(y.dayOfYear, y.year, 0) + 1

\* the contract runs from the first day of a month to the first day of the next
OneFullCalendarMonth ==
  /\ args.startDate.kind = "ok" /\ args.endDate.kind = "ok"
  /\ MonthOfDay(args.startDate.day) # MonthOfDay(args.startDate.day - 1)
  /\ args.endDate.day - args.startDate.day
       = MonthLength(YearFrom(args.startDate.day, 2024).year, MonthOfDay(args.startDate.day))

\* C24: for a line item of unit_price P and quantity 1, monthly billing, a
\* contract spanning exactly one full calendar month and now equal to the
\* contract start, the proration amount is P x 100 minor units, to within one
\* minor unit of rounding.
C24_MonthlyRoundTrip ==
  ( /\ ProrationCall /\ pc = "pe_done"
    /\ args.lineItem.quantity = 1
    /\ args.billingFrequency = "monthly"
    /\ ~args.prorationDetails.present
    /\ OneFullCalendarMonth
    /\ now = 2 * args.startDate.day ) =>
      /\ Len(returned) = 1
      /\ LET amount == returned[1].value.amountInCents
             P100 == 100 * args.lineItem.unit_price
         IN /\ amount * args.den - P100 <= args.den
            /\ P100 - amount * args.den <= args.den

(* ---------------- the risk calculator ---------------- *)
\* the entries of the log that answer calls of fn
ReturnsOf(fn) == {i \in 1..Len(returned) : returned[i].fn = fn}

\* low < medium < high
LevelRank(level) ==
  CASE level = "low" -> 1 [] level = "medium" -> 2 [] level = "high" -> 3 [] OTHER -> 0

\* C25: calculateRiskLevel maps every non-negative amount to exactly one level,
\* low if amount <= 1000, medium if 1000 < amount <= 5000, high otherwise, and is
\* monotonic non-decreasing in the amount (low < medium < high).
C25_RiskLevelTotalMonotone ==
  /\ \A i \in ReturnsOf("calculateRiskLevel") :
       LET a == returned[i].args
           level == returned[i].value
       IN /\ level \in {"low", "medium", "high"}
          /\ level = "low" <=> a.num <= 1000 * a.den
          /\ level = "medium" <=> (a.num > 1000 * a.den /\ a.num <= 5000 * a.den)
          /\ level = "high" <=> a.num > 5000 * a.den
  /\ \A i, j \in ReturnsOf("calculateRiskLevel") :
       returned[i].args.num * returned[j].args.den <= returned[j].args.num * returned[i].args.den
         => LevelRank(returned[i].value) <= LevelRank(returned[j].value)

\* 1000 is low and 1000.50, asked next, is medium
C25_Witness ==
  /\ Len(returned) = 2
  /\ returned[1].fn = "calculateRiskLevel" /\ returned[2].fn = "calculateRiskLevel"
  /\ returned[1].args = [num |-> 2000, den |-> 2] /\ returned[1].value = "low"
  /\ returned[2].args = [num |-> 2001, den |-> 2] /\ returned[2].value = "medium"

\* the four sub-scores of an opportunity, in the order they are added up
SubScores(opp) ==
  << calculateAmountRisk(opp.amount),
     calculateComplexityRisk(opp.line_items),
     calculateDurationRisk(opp.contract_start_date, opp.contract_end_date),
     calculatePaymentTermsRisk(opp.payment_terms) >>

\* C26: calculateOpportunityRisk returns a score equal to the sum of the four
\* sub-scores (amount tier, line-item complexity, contract duration, payment
\* terms), a level that is low iff score <= 10, medium iff 10 < score <= 20 and
\* high iff score > 20, and a factor list that is the concatenation of the
\* sub-scores' factor strings in that order.
C26_ScoreLevelFactors ==
  \A i \in ReturnsOf("calculateOpportunityRisk") :
    LET sub == SubScores(returned[i].args)
        r == returned[i].value
    IN /\ r.score = sub[1].score + sub[2].score + sub[3].score + sub[4].score
       /\ r.riskLevel = "low" <=> r.score <= 10
       /\ r.riskLevel = "medium" <=> (10 < r.score /\ r.score <= 20)
       /\ r.riskLevel = "high" <=> r.score > 20
       /\ r.factors = sub[1].factors \o sub[2].factors \o sub[3].factors \o sub[4].factors

\* a score of exactly 10 is low, and the other opportunity scores 16: medium
C26_Witness ==
  /\ Len(returned) = 2
  /\ returned[1].args = opportunity
  /\ returned[1].value.score = 10 /\ returned[1].value.riskLevel = "low"
  /\ Len(returned[1].value.factors) = 1
  /\ returned[2].args = OtherOpportunity
  /\ returned[2].value.score = 16 /\ returned[2].value.riskLevel = "medium"
  /\ returned[2].value.factors
       = <<"High value opportunity (>$50k)", "Multiple line items",
           "Contains proration calculations", "Long payment terms">>

\* C27 as stated: each of the four sub-scores of calculateOpportunityRisk lies
\* between 0 and 10 points inclusive.
C27_Original ==
  \A i \in ReturnsOf("calculateOpportunityRisk"), k \in 1..4 :
    SubScores(returned[i].args)[k].score \in 0..10

\* C27 amended: the amount, duration and payment-terms sub-scores lie between
\* 0 and 10 points; the line-item complexity sub-score lies between 0 and 15,
\* since the points for the number of line items (2, 5 or 8), for one-time
\* charges (3) and for proration (4) add up, and it exceeds 10 only for more
\* than five line items.
C27_SubScoreRanges ==
  \A i \in ReturnsOf("calculateOpportunityRisk") :
    LET opp == returned[i].args
        sub == SubScores(opp)
    IN /\ sub[1].score \in 0..10
       /\ sub[3].score \in 0..10
       /\ sub[4].score \in 0..10
       /\ sub[2].score \in 0..15
       /\ sub[2].score > 10 => Len(opp.line_items) > 5
       /\ returned[i].value.score \in 0..(10 + 15 + 10 + 10)

\* twelve line items with a one-time charge and a prorated item: complexity 15
C27_Witness ==
  /\ Len(returned) = 1
  /\ returned[1].fn = "calculateOpportunityRisk"
  /\ Len(returned[1].args.line_items) = 12
  /\ SubScores(returned[1].args)[2].score = 15
  /\ returned[1].value.score = 15 + SubScores(returned[1].args)[1].score
                                  + SubScores(returned[1].args)[3].score
                                  + SubScores(returned[1].args)[4].score

DurationFactors ==
  {"Long-term contract (>1 year)", "Medium-term contract (>3 months)",
   "Short-term contract (<1 month)"}

\* the duration points the claim gives a contract of so many days
DurationPoints(days) ==
  IF days > 365 THEN 6 ELSE IF days > 90 THEN 3 ELSE IF days < 30 THEN 2 ELSE 0

\* C28: the contract-duration sub-score is 6 when the contract lasts more than
\* 365 days, 3 when it lasts more than 90 and at most 365 days, 2 when it lasts
\* fewer than 30 days, and 0, with no factor string, for every duration from
\* 30 to 90 days inclusive; this is what the duration adds to the returned
\* score and factors.
C28_DurationSubScore ==
  \A i \in ReturnsOf("calculateOpportunityRisk") :
    LET opp == returned[i].args
        r == returned[i].value
        sub == SubScores(opp)
        days == opp.contract_end_date.day - opp.contract_start_date.day
    IN (opp.contract_start_date.kind = "ok" /\ opp.contract_end_date.kind = "ok") =>
         /\ days > 365 => sub[3].score = 6
         /\ (days > 90 /\ days <= 365) => sub[3].score = 3
         /\ days < 30 => sub[3].score = 2
         /\ (days >= 30 /\ days <= 90) => sub[3].score = 0 /\ sub[3].factors = <<>>
         /\ r.score = sub[1].score + sub[2].score + sub[4].score + DurationPoints(days)
         /\ (days >= 30 /\ days <= 90) =>
              \A f \in 1..Len(r.factors) : r.factors[f] \notin DurationFactors
         /\ ~(days >= 30 /\ days <= 90) =>
              \E f \in 1..Len(r.factors) : r.factors[f] \in DurationFactors

\* a contract of exactly 90 days adds nothing to the score and no factor
C28_Witness ==
  /\ Len(returned) = 1
  /\ returned[1].args = opportunity
  /\ opportunity.contract_start_date = OkDate(10)
  /\ opportunity.contract_end_date = OkDate(100)
  /\ opportunity.amount = 500 /\ opportunity.line_items = <<>>
  /\ opportunity.payment_terms = <<>>
  /\ returned[1].value = [riskLevel |-> "low", factors |-> <<>>, score |-> 0]

C30_ManualReviewFlag ==
  \A s \in ReturnsOf("generateReviewSheet") :
    LET list == returned[s].args.billingActions
        sheet == returned[s].value
    IN /\ sheet.manual_review_required <=>
            \E i \in 1..Len(list) :
              \/ list[i].requires_review = TRUE
              \/ list[i].risk_level = "high"
              \/ \E t \in 1..Len(list[i].description) : list[i].description[t] = "ERROR:"
       /\ sheet.total_actions = Len(list)
       /\ sheet.billing_actions = list

\* two actions, neither flagged for review nor of high risk; the second one's
\* description starts with "ERROR:", and the sheet asks for a manual review
C30_Witness ==
  /\ pc = "og_done" /\ Len(returned) = 1
  /\ Len(args.billingActions) = 2
  /\ \A i \in 1..2 : /\ ~args.billingActions[i].requires_review
                     /\ args.billingActions[i].risk_level # "high"
  /\ args.billingActions[1].description = <<"Error during", "renewal", "processing">>
  /\ args.billingActions[2].description[1] = "ERROR:"
  /\ returned[1].value.manual_review_required
  /\ returned[1].value.total_actions = 2

(* ---------------- one-time charges of an insertion order ---------------- *)
\* C32: the charge_one_time action of a one-time line item of an insertion
\* order is the one New Business emits: risk_level by amount tier,
\* requires_review iff total_price > 1000, and the note "High-value one-time
\* charge" iff total_price > 5000.
C32_InsertionOneTimeCharge ==
  opportunity.type = "insertion_order" =>
    \A a \in 1..Len(actions) :
      actions[a].type = "charge_one_time" =>
        LET total == opportunity.line_items[actions[a].line_item].total_price IN
        /\ actions[a].risk_level = IF total <= 1000 THEN "low"
                                   ELSE IF total <= 5000 THEN "medium" ELSE "high"
        /\ actions[a].requires_review <=> total > 1000
        /\ HasToken(actions[a].notes, "High-value one-time charge") <=> total > 5000

(* ---------------- compensation runs once ---------------- *)
\* the actions saying that charges (and invoices) cannot be rolled back
ChargeNoteActions(acts) ==
  { a \in 1..Len(acts) :
      /\ acts[a].type = "error"
      /\ acts[a].description \in
           { <<"One-time charges cannot be rolled back">>,
             <<"Charges and invoices cannot be automatically rolled back">> } }

\* C33: during compensation in the New Business and Insertion Order
\* generators cancelSubscription is invoked at most once for each subscription
\* created in the invocation, and the action stating that charges (and
\* invoices) cannot be rolled back appears at most once in the output.
C33_CompensationAtMostOnce ==
  opportunity.type \in {"new_business", "insertion_order"} =>
    /\ \A i, j \in 1..Len(calls) :
         (i < j /\ CompCancel(calls[i]) /\ CompCancel(calls[j])) => calls[i].id # calls[j].id
    /\ Cardinality(ChargeNoteActions(actions)) <= 1

(* ---------------- risk and review of the returned actions ---------------- *)
\* C34: in every list generateActions returns, whatever the path, each action
\* of type error has risk_level high and requires_review true, and each action
\* with risk_level high has requires_review true.
C34_ErrorsHighAndReviewed ==
  Returned =>
    \A a \in 1..Len(result) :
      /\ result[a].type = "error" => result[a].risk_level = "high" /\ result[a].requires_review
      /\ result[a].risk_level = "high" => result[a].requires_review

\* a returned list with a high-risk charge, a compensating cancellation, the
\* terminal error and an action that needs no review
C34_Witness ==
  /\ Returned
  /\ ForwardFailed
  /\ \E a, b, c, d \in 1..Len(result) :
       /\ result[a].type = "charge_one_time" /\ result[a].risk_level = "high"
       /\ result[b].type = "cancel_subscription" /\ result[b].risk_level = "high"
       /\ result[c].type = "error" /\ result[c].description[1] = "Error during"
       /\ ~result[d].requires_review /\ result[d].risk_level = "low"

(* ---------------- the terminal error of a generator ---------------- *)
\* the terminal error action of a generator's handleError
TerminalError(a) ==
  /\ ErrorAction(a)
  /\ Len(a.description) = 3
  /\ a.description[1] = "Error during" /\ a.description[3] = "processing"

\* C35: in every generator, once a forward provider call has failed no
\* exception leaves the generator, whether or not the compensation calls fail:
\* the dispatcher's own error path is never taken, and the last action of the
\* returned list is the terminal error "Error during ... processing"
\* (risk_level high), carrying the error text and the opportunity id.
C35_TerminalErrorLast ==
  ForwardFailed =>
    /\ pc \notin {"af_catch", "be_catch", "crashed"}
    /\ GeneratorReturned =>
         /\ Len(actions) >= 1
         /\ TerminalError(actions[Len(actions)])
         /\ actions[Len(actions)].details.error = error /\ error # ""
         /\ actions[Len(actions)].details.opportunity_id = opportunity.id
         /\ \A a \in 1..Len(actions) :
              actions[a].description[1] # "Critical error during"
    /\ Returned => result[Len(result)] = actions[Len(actions)]

\* a high-risk conversion whose subscription creation failed and whose
\* compensating cancellation failed as well has returned the terminal error last
C35_Witness ==
  /\ Returned
  /\ opportunity.type = "conversion_order"
  /\ opportunityRisk.riskLevel = "high"
  /\ ForwardFailed /\ CompensationFailed
  /\ Len(result) >= 4
  /\ TerminalError(result[Len(result)])
  /\ result[Len(result)].details.error = "createSubscription failed"

(* ---------------- the actions of the steps that succeeded ---------------- *)
\* the actions a generator pushes in its catch blocks, rollbackItems and handleError
CompensationOrError(a) ==
  \/ a.type = "error"
  \/ a.description[1] \in {"Rollback: Cancel", "Rollback failed: Could not cancel",
                           "Rollback: Restore subscription",
                           "Rollback failed: Could not restore subscription"}

\* C36: when a generator fails at some step, the actions it had emitted for
\* the steps that succeeded remain in its list, unchanged and in their original
\* order, as a prefix: every step of a generator only appends to the list, and
\* after a failed forward call it appends compensation and error actions only.
C36_EmittedActionsKept ==
  [][InGenerator =>
       /\ Len(actions') >= Len(actions)
       /\ SubSeq(actions', 1, Len(actions)) = actions
       /\ ForwardFailed' =>
            \A a \in (Len(actions) + 1)..Len(actions') : CompensationOrError(actions'[a])]_vars

\* a renewal that updated one subscription, created another, then failed: the
\* two forward actions are still the first two of the returned list, followed
\* by the restore, the cancellation and the terminal error
C36_Witness ==
  /\ GeneratorReturned /\ ForwardFailed
  /\ opportunity.type = "renewal"
  /\ Len(actions) = 5
  /\ actions[1].type = "update_subscription" /\ ~CompensationOrError(actions[1])
  /\ actions[2].type = "create_subscription"
  /\ actions[3].description[1] = "Rollback: Restore subscription"
  /\ actions[4].description[1] = "Rollback: Cancel"
  /\ TerminalError(actions[5])

(* ---------------- what compensation may cancel ---------------- *)
\* the uuids of the subscriptions of the state snapshot
ExistingIds ==
  IF recurlyState.present
  THEN {recurlyState.subscriptions[s].uuid : s \in 1..Len(recurlyState.subscriptions)}
  ELSE {}

\* C37: compensation never cancels a subscription that existed before the
\* invocation: every cancelSubscription call of a rollback names a uuid that a
\* successful createSubscription call of this invocation returned earlier, and
\* none of the snapshot's subscriptions; the rollback of a conversion issues
\* nothing but such cancellations, so it never re-creates or restores the
\* subscriptions the conversion cancelled.
C37_CompensationCancelsOwnOnly ==
  /\ \A i \in 1..Len(calls) :
       CompCancel(calls[i]) =>
         /\ \E j \in 1..(i - 1) : CreateOk(calls[j]) /\ calls[j].id = calls[i].id
         /\ calls[i].id \notin ExistingIds
  /\ opportunity.type = "conversion_order" =>
       \A i \in 1..Len(calls) :
         /\ calls[i].comp => calls[i].op = "cancelSubscription"
         /\ calls[i].op # "cancelSubscription" => calls[i].id \notin ExistingIds

\* a conversion cancelled two self-service subscriptions, created an enterprise
\* subscription, failed, and its rollback has cancelled the one it created
C37_Witness ==
  /\ GeneratorReturned /\ ForwardFailed
  /\ opportunity.type = "conversion_order"
  /\ Len(cancelledSubscriptions) = 2
  /\ \E i \in 1..Len(calls) : CompCancel(calls[i]) /\ calls[i].ok /\ calls[i].id = 3

(* ---------------- the targets of a renewal's updates ---------------- *)
\* C39: in a renewal, each existing subscription is the target of at most one
\* update_subscription action: two distinct line items of the opportunity never
\* match, and update, the same existing subscription.
C39_OneUpdatePerSubscription ==
  opportunity.type = "renewal" =>
    \A a, b \in 1..Len(actions) :
      ( /\ a < b
        /\ actions[a].type = "update_subscription" /\ actions[a].line_item # 0
        /\ actions[b].type = "update_subscription" /\ actions[b].line_item # 0 )
      => actions[a].details.subscription_id # actions[b].details.subscription_id

(* ---------------- the rollback of a renewal ---------------- *)
UpdateCall(c) == c.op = "updateSubscription" /\ ~c.comp
RestoreCall(c) == c.op = "updateSubscription" /\ c.comp

\* a renewal has failed at a line item, its rollback is over and every
\* compensation call succeeded
RenewalRolledBack ==
  /\ opportunity.type = "renewal"
  /\ GeneratorReturned
  /\ ForwardFailed /\ ~CompensationFailed

\* the last updateSubscription call for a subscription that was updated with
\* success is a restore with the snapshot's plan code, unit amount and quantity
LastUpdateRestores ==
  \A i \in 1..Len(calls) :
    (UpdateCall(calls[i]) /\ calls[i].ok) =>
      \E r \in (i + 1)..Len(calls) :
        /\ RestoreCall(calls[r]) /\ calls[r].id = calls[i].id
        /\ \A l \in (r + 1)..Len(calls) :
             calls[l].op = "updateSubscription" => calls[l].id # calls[r].id
        /\ LET existing == recurlyState.subscriptions[calls[r].id] IN
           /\ calls[r].data.plan_code = existing.plan_code
           /\ calls[r].data.unit_amount_in_cents = existing.unit_amount_in_cents
           /\ calls[r].data.quantity = existing.quantity

\* every subscription created earlier in the invocation has been cancelled
CreatedAreCancelled ==
  \A i \in 1..Len(calls) :
    CreateOk(calls[i]) =>
      \E r \in (i + 1)..Len(calls) :
        CompCancel(calls[r]) /\ calls[r].ok /\ calls[r].id = calls[i].id

AccountNote(a) ==
  /\ a.type = "error"
  /\ Len(a.description) = 3
  /\ a.description[1] = "Account" /\ a.description[3] = "created but processing failed"

\* the New Business generator has returned
NewBusinessReturned ==
  /\ opportunity.type = "new_business"
  /\ GeneratorReturned
  /\ Len(calls) >= 1 /\ calls[1].op = "createAccount"

\* C40: the New Business generator emits the error action "Account ... created
\* but processing failed" iff createAccount succeeded and a later step failed;
\* if createAccount itself fails, its output is exactly one action, the
\* terminal error, and it makes no createSubscription or cancelSubscription call.
C40_AccountNote ==
  NewBusinessReturned =>
    /\ (\E a \in 1..Len(actions) : AccountNote(actions[a]))
         <=> (calls[1].ok /\ \E c \in 2..Len(calls) : ~calls[c].ok /\ ~calls[c].comp)
    /\ ~calls[1].ok =>
         /\ Len(actions) = 1
         /\ TerminalError(actions[1])
         /\ actions[1].details.error = "createAccount failed"
         /\ \A c \in 1..Len(calls) :
              calls[c].op \notin {"createSubscription", "cancelSubscription"}

\* createAccount failed and the generator returned the terminal error alone
C40_Witness ==
  /\ NewBusinessReturned
  /\ ~calls[1].ok
  /\ Len(opportunity.line_items) >= 2
  /\ Len(actions) = 1 /\ TerminalError(actions[1])

\* createAccount succeeded, a later createSubscription failed: the note on the
\* account precedes the terminal error
C40_WitnessLaterFailure ==
  /\ NewBusinessReturned
  /\ calls[1].ok /\ ForwardFailed
  /\ AccountNote(actions[Len(actions) - 1])

(* ---------------- two invocations on one engine ---------------- *)
MaxPairItems == 2

\* what an invocation of generateActions holds while it is suspended at an
\* await: its arguments, its position, and the locals of the generator
Suspended ==
  [opportunity |-> opportunity, recurlyState |-> recurlyState, pc |-> pc,
   handlers |-> handlers, error |-> error, opportunityRisk |-> opportunityRisk,
   actions |-> actions, result |-> result, createdAccount |-> createdAccount,
   createdSubscriptions |-> createdSubscriptions, createdCharges |-> createdCharges,
   createdInvoices |-> createdInvoices, updatedSubscriptions |-> updatedSubscriptions,
   cancelledSubscriptions |-> cancelledSubscriptions, appliedCredits |-> appliedCredits,
   idx |-> idx, rbIdx |-> rbIdx, rbPass |-> rbPass, calls |-> calls]

\* an invocation that has been called and has not run yet: "const actions =
\* []; let createdAccount = null; const createdSubscriptions = []; ..."
Entered(opp, st) ==
  [opportunity |-> opp, recurlyState |-> st, pc |-> "be_start",
   handlers |-> <<>>, error |-> "", opportunityRisk |-> NoRisk,
   actions |-> <<>>, result |-> <<>>, createdAccount |-> FALSE,
   createdSubscriptions |-> <<>>, createdCharges |-> <<>>,
   createdInvoices |-> <<>>, updatedSubscriptions |-> <<>>,
   cancelledSubscriptions |-> <<>>, appliedCredits |-> <<>>,
   idx |-> 0, rbIdx |-> 0, rbPass |-> 0, calls |-> <<>>]

\* the event loop resumes an invocation: every local is the invocation's own;
\* the variant keeps createdSubscriptions across invocations, as a field of
\* the generator would be
Resume_m(f) ==
  /\ opportunity' = f.opportunity /\ recurlyState' = f.recurlyState
  /\ pc' = f.pc /\ handlers' = f.handlers /\ error' = f.error
  /\ opportunityRisk' = f.opportunityRisk
  /\ actions' = f.actions /\ result' = f.result
  /\ createdAccount' = f.createdAccount
  /\ createdSubscriptions' = createdSubscriptions
  /\ createdCharges' = f.createdCharges /\ createdInvoices' = f.createdInvoices
  /\ updatedSubscriptions' = f.updatedSubscriptions
  /\ cancelledSubscriptions' = f.cancelledSubscriptions
  /\ appliedCredits' = f.appliedCredits
  /\ idx' = f.idx /\ rbIdx' = f.rbIdx /\ rbPass' = f.rbPass
  /\ calls' = f.calls
Resume(f) ==
  /\ opportunity' = f.opportunity /\ recurlyState' = f.recurlyState
  /\ pc' = f.pc /\ handlers' = f.handlers /\ error' = f.error
  /\ opportunityRisk' = f.opportunityRisk
  /\ actions' = f.actions /\ result' = f.result
  /\ createdAccount' = f.createdAccount
  /\ createdSubscriptions' = f.createdSubscriptions
  /\ createdCharges' = f.createdCharges /\ createdInvoices' = f.createdInvoices
  /\ updatedSubscriptions' = f.updatedSubscriptions
  /\ cancelledSubscriptions' = f.cancelledSubscriptions
  /\ appliedCredits' = f.appliedCredits
  /\ idx' = f.idx /\ rbIdx' = f.rbIdx /\ rbPass' = f.rbPass
  /\ calls' = f.calls

\* the positions at which the next statement awaits a provider call
AwaitPoints ==
  {"nb_start", "nb_item", "nb_rollback", "io_item", "io_rollback", "rn_item",
   "rn_restore", "rn_rollback", "cv_cancel", "cv_item", "cv_rollback"}

Finished(at) == at \in {"done", "crashed"}

\* what the caller of an invocation observes of it
Outcome(f) == [pc |-> f.pc, result |-> f.result, calls |-> f.calls]

\* line items of the paired orders: subscriptions, or a subscription and a
\* one-time charge in turn
PairItems ==
  { items \in SeqsUpTo({k \in ItemKinds : ~k.proration_needed}, 1, MaxPairItems) :
      /\ items[1].billing_period = "monthly"
      /\ \A i \in 1..Len(items) : items[i] = items[2 - (i % 2)] }

\* the account holds one subscription, on plan A or on plan B
OneSubscription(plan) ==
  [present |-> TRUE,
   subscriptions |-> <<Subscription(1, CHOOSE k \in SubKinds : k.plan_code = plan /\ k.state = "active")>>]

PairOpportunity(type, items) ==
  Opportunity(type, items, 500, <<"net_30">>, NoOutstanding, IF type = "conversion_order" THEN 133 ELSE 0)

\* the order types and the state snapshots they are processed against
PairKinds ==
  { [type |-> "new_business", recurlyState |-> NoState, defect |-> "none"],
    [type |-> "insertion_order", recurlyState |-> OneSubscription("A"), defect |-> "none"],
    [type |-> "conversion_order", recurlyState |-> OneSubscription("A"), defect |-> "none"],
    [type |-> "renewal", recurlyState |-> OneSubscription("A"), defect |-> "none"],
    [type |-> "renewal", recurlyState |-> OneSubscription("B"), defect |-> "none"],
    [type |-> "upgrade", recurlyState |-> NoState, defect |-> "none"],
    [type |-> "renewal", recurlyState |-> OneSubscription("A"), defect |-> "no_account"] }

\* engine.generateActions(first, ...) and engine.generateActions(second, ...)
\* are called one after the other on the same engine, neither is awaited; the
\* two orders are for the same products
PairInit ==
  /\ \E items \in PairItems, first \in PairKinds, second \in PairKinds :
       /\ (first.type = "upgrade" \/ first.defect # "none") => Len(items) = 1
       /\ opportunity = Broken(PairOpportunity(first.type, items), first.defect)
       /\ recurlyState = first.recurlyState
       /\ peers = [phase |-> "run", self |-> 1, interleaved |-> FALSE, outcome |-> <<>>,
                   other |-> Entered([Broken(PairOpportunity(second.type, items), second.defect)
                                        EXCEPT !.id = "opp_002"],
                                     second.recurlyState)]
  /\ pc = "be_start"
  /\ handlers = <<>>
  /\ error = ""
  /\ opportunityRisk = NoRisk
  /\ actions = <<>>
  /\ result = <<>>
  /\ createdAccount = FALSE
  /\ createdSubscriptions = <<>>
  /\ createdCharges = <<>>
  /\ createdInvoices = <<>>
  /\ updatedSubscriptions = <<>>
  /\ cancelledSubscriptions = <<>>
  /\ appliedCredits = <<>>
  /\ idx = 0
  /\ rbIdx = 0
  /\ rbPass = 0
  /\ calls = <<>>
  /\ args = NoArgs
  /\ validation = NoValidation
  /\ baseProration = 0
  /\ returned = <<>>
  /\ now = 0

\* the running invocation awaits a provider call (or has returned) and the
\* event loop resumes the other one
Switch ==
  /\ peers.phase = "run"
  /\ pc \in AwaitPoints \/ Finished(pc)
  /\ ~Finished(peers.other.pc)
  /\ peers' = [peers EXCEPT
                 !.self = 3 - @,
                 !.other = Suspended,
                 !.interleaved = @ \/ (~Finished(pc) /\ peers.other.pc # "be_start")]
  /\ Resume(peers.other)
  /\ UNCHANGED <<now, unitCall>>

\* both invocations have returned: their outcomes are kept, and the first
\* opportunity is processed again, alone
RunAlone ==
  /\ peers.phase = "run"
  /\ Finished(pc) /\ Finished(peers.other.pc)
  /\ LET first == IF peers.self = 1 THEN Suspended ELSE peers.other
         second == IF peers.self = 1 THEN peers.other ELSE Suspended IN
     /\ peers' = [peers EXCEPT
                    !.phase = "alone",
                    !.self = 1,
                    !.outcome = <<Outcome(first), Outcome(second)>>,
                    !.other = Entered(second.opportunity, second.recurlyState)]
     /\ Resume(Entered(first.opportunity, first.recurlyState))
  /\ UNCHANGED <<now, unitCall>>

\* the first opportunity has been processed alone: now the second one
RunSecondAlone ==
  /\ peers.phase = "alone"
  /\ peers.self = 1
  /\ Finished(pc)
  /\ peers' = [peers EXCEPT !.self = 2, !.other = Suspended]
  /\ Resume(peers.other)
  /\ UNCHANGED <<now, unitCall>>

\* an invocation that runs alone meets the provider responses its interleaved
\* run met: the n-th call succeeds iff it did then
SameResponses ==
  peers.phase = "alone" =>
    \A c \in 1..Len(calls') :
      c <= Len(peers.outcome[peers.self].calls) =>
        calls'[c].ok = peers.outcome[peers.self].calls[c].ok

PairNext ==
  \/ BE_generateActions /\ SameResponses
  \/ BE_catch /\ SameResponses
  \/ BE_return /\ SameResponses
  \/ AF_generateActions /\ SameResponses
  \/ AF_handleError /\ SameResponses
  \/ NB_createAccount /\ SameResponses
  \/ NB_item /\ SameResponses
  \/ NB_return /\ SameResponses
  \/ NB_catch /\ SameResponses
  \/ NB_rollbackItems /\ SameResponses
  \/ NB_rollbackDone /\ SameResponses
  \/ IO_generateActions /\ SameResponses
  \/ IO_item /\ SameResponses
  \/ IO_return /\ SameResponses
  \/ IO_catch /\ SameResponses
  \/ IO_rollbackItems /\ SameResponses
  \/ IO_rollbackDone /\ SameResponses
  \/ RN_generateActions /\ SameResponses
  \/ RN_item /\ SameResponses
  \/ RN_return /\ SameResponses
  \/ RN_catch /\ SameResponses
  \/ RN_rollbackUpdated /\ SameResponses
  \/ RN_rollbackUpdatedDone /\ SameResponses
  \/ RN_rollbackCreated /\ SameResponses
  \/ RN_rollbackDone /\ SameResponses
  \/ CV_generateActions /\ SameResponses
  \/ CV_cancelSelfService /\ SameResponses
  \/ CV_applyCredit /\ SameResponses
  \/ CV_item /\ SameResponses
  \/ CV_return /\ SameResponses
  \/ CV_catch /\ SameResponses
  \/ CV_rollbackItems /\ SameResponses
  \/ CV_rollbackDone /\ SameResponses
  \/ Switch
  \/ RunAlone
  \/ RunSecondAlone

PairSpec == PairInit /\ [][PairNext]_vars

\* C31: two invocations of generateActions on the same engine, for different
\* opportunities, interleaved at their provider-call await points, do not
\* interfere: each returns the action list, and issues the provider calls
\* (compensation calls included), that it returns and issues when it runs
\* alone against the same provider responses.
C31_NoInterference ==
  (peers.phase = "alone" /\ Finished(pc)) =>
    /\ pc = peers.outcome[peers.self].pc
    /\ result = peers.outcome[peers.self].result
    /\ calls = peers.outcome[peers.self].calls

\* the two invocations were both in flight when the event loop switched
\* between them, both met a failed provider call and ran their compensation,
\* and the second has now been run alone
C31_Witness ==
  /\ peers.phase = "alone" /\ peers.self = 2 /\ Finished(pc)
  /\ peers.interleaved
  /\ opportunity.id = "opp_002"
  /\ opportunity.type # peers.other.opportunity.type
  /\ \A o \in 1..2 :
       \E i, j \in 1..Len(peers.outcome[o].calls) :
         /\ ~peers.outcome[o].calls[i].ok /\ ~peers.outcome[o].calls[i].comp
         /\ peers.outcome[o].calls[j].comp

====
